---- MODULE Spec2Model ----
(***************************************************************************)
(* Job orchestration pipeline of the media API: the job ledger             *)
(* (db/database.py), the object-store gateway (storage/minio_client.py),   *)
(* the Celery tasks (tasks/tasks.py), the dispatcher configuration         *)
(* (celery_app.py) and the submission endpoints (app.py).                  *)
(***************************************************************************)
EXTENDS Integers, Sequences, FiniteSets, TLC

(***************************************************************************)
(* Bounds of the model.                                                    *)
(***************************************************************************)
MaxJobs == 2
MaxTasks == 2
MaxFails == 2
MaxTicks == 2
StartTime == 7200
TickStep == 1801
MaxSubmitted == 3
MaxWorkers == 2
MaxWindows == 1
MaxElements == 2
MaxScenes == 2
MaxThreads == 2
MaxFiles == 2
MaxRuns == 2
MaxCalls == 2
MaxConns == 2
MaxUpdates == 2

(***************************************************************************)
(* Program constants.  MINIO_CONFIG is the dictionary of config.py, the one *)
(* that holds the keys minio_client.py reads (credentials_cache_time,      *)
(* service_account_url).                                                   *)
(***************************************************************************)
credentials_cache_time == 3600
max_retries == 3
task_max_retries == 3
default_duration == 5
max_scenes == 50
max_duration == 300

JobIds == 1..MaxJobs
TaskIds == 1..MaxTasks

(***************************************************************************)
(* Values: object names, URLs, error texts and None share one record shape *)
(* so that they can be stored in the same column and compared.             *)
(***************************************************************************)
None == [kind |-> "none", media |-> "", job |-> 0, ext |-> "", text |-> ""]
Text(s) == [kind |-> "text", media |-> "", job |-> 0, ext |-> "", text |-> s]
ObjectName(m, j, e) == [kind |-> "object", media |-> m, job |-> j, ext |-> e, text |-> ""]
True == [kind |-> "true", media |-> "", job |-> 0, ext |-> "", text |-> ""]
False == [kind |-> "false", media |-> "", job |-> 0, ext |-> "", text |-> ""]
\* build_public_url: f"{base}/{bucket}/{object_name}"
build_public_url(o) == [kind |-> "url", media |-> o.media, job |-> o.job, ext |-> o.ext, text |-> ""]
\* Python truthiness of an Optional[str]: None and "" are false.
\* The(S) is the element of a one-element set: The({e(x) : x \in {v}}) is
\* e(v) with v computed once.
The(S) == CHOOSE x \in S : TRUE

RECURSIVE SumOver(_, _)
SumOver(f, S) ==
    IF S = {} THEN 0
    ELSE LET x == CHOOSE y \in S : TRUE IN f[x] + SumOver(f, S \ {x})

Truthy(v) == v.kind \in {"url", "object"} \/ (v.kind = "text" /\ v.text # "")

(***************************************************************************)
(* Object Store Gateway (storage/minio_client.py).                         *)
(* A gateway state G is a record                                           *)
(*   mc     minio_credentials: credentials (time of the refresh that       *)
(*          produced the triple, 0 = empty dict) and last_update           *)
(*   cache  the lru_cache of get_minio_client: empty, or the value         *)
(*          returned by its first call (a client built from the            *)
(*          credentials of refresh `cred`, or None)                        *)
(*   store  the remote object store: fails = number of coming calls that   *)
(*          fail, fault = the message of those failures, bucket = whether  *)
(*          the bucket exists, objects = the object names it holds         *)
(*   issuer whether the credential issuer answers                          *)
(***************************************************************************)
EmptyCache == [kind |-> "empty", cred |-> 0]
NoClient == [kind |-> "none", cred |-> 0]
Client(c) == [kind |-> "client", cred |-> c]
Faults == {"token expired", "connection refused"}

needs_update(mc, t) == (t - mc.last_update) > credentials_cache_time

\* update_credentials stamping last_update before the request is made.
update_credentials_stamped_first(mc, t, issuer) ==
    IF issuer
    THEN [ok |-> TRUE, mc |-> [credentials |-> t, last_update |-> t]]
    ELSE [ok |-> FALSE, mc |-> [mc EXCEPT !.last_update = t]]

\* MinioCredentials.update_credentials: on success the triple and
\* last_update are replaced; on failure nothing changes and False is returned.
update_credentials(mc, t, issuer) ==
    IF issuer
    THEN [ok |-> TRUE, mc |-> [credentials |-> t, last_update |-> t]]
    ELSE [ok |-> FALSE, mc |-> mc]

\* One request sent to the store: it fails while store.fails > 0, consuming
\* one failure.
store_call(G) ==
    IF G.store.fails > 0
    THEN [ok |-> FALSE, msg |-> G.store.fault,
          G |-> [G EXCEPT !.store.fails = G.store.fails - 1,
                          !.store.fault = IF G.store.fails = 1 THEN "" ELSE @]]
    ELSE [ok |-> TRUE, msg |-> "", G |-> G]

\* The body of get_minio_client, run on a cache miss.
new_minio_client(G, t) ==
    The({
    LET need == needs_update(G.mc, t)
        \* credentials["access_key"] of an empty dict raises KeyError
        built == upd.ok /\ upd.mc.credentials # 0
        G1 == [G EXCEPT !.mc = upd.mc]
        \* client.list_buckets() tests the connection
        s == IF built THEN store_call(G1) ELSE [ok |-> FALSE, msg |-> "", G |-> G1]
        client == IF built /\ s.ok THEN Client(upd.mc.credentials) ELSE NoClient
    IN  [G |-> [s.G EXCEPT !.cache = client],
         client |-> client,
         refreshes |-> IF need THEN 1 ELSE 0]
    : upd \in {IF needs_update(G.mc, t) THEN update_credentials(G.mc, t, G.issuer)
                                        ELSE [ok |-> TRUE, mc |-> G.mc]} })

\* @lru_cache(maxsize=1) around get_minio_client: the first returned value
\* (a client or None) is returned by every later call, the body is not run.
get_minio_client(G, t) ==
    IF G.cache.kind # "empty"
    THEN [G |-> G, client |-> G.cache, refreshes |-> 0]
    ELSE new_minio_client(G, t)

\* The `except Exception` arm shared by upload_file, download_file,
\* delete_file and list_files: a "token expired" message resets last_update.
on_error(G, msg) ==
    IF msg = "token expired" THEN [G EXCEPT !.mc.last_update = 0] ELSE G

\* What one call of a gateway function did: the state it leaves, the value
\* it returns, whether it raised, how many credential refreshes it ran,
\* whether it sent a request to the store through a client and, if so, the
\* credentials of that client.
Outcome(G, ret, raised, c, used) ==
    [G |-> G, ret |-> ret, raised |-> raised, refreshes |-> c.refreshes,
     used |-> used, cred |-> IF used THEN c.client.cred ELSE 0, attempts |-> 1]

\* The body of upload_file (one attempt).  path is "file" for an existing
\* local file and "none" for None or a missing file.
upload_attempt(G, t, path, obj) ==
    The({
    LET s == store_call(c.G)
    IN  IF c.client.kind # "client" THEN Outcome(c.G, None, FALSE, c, FALSE)
        ELSE IF path # "file" THEN Outcome(c.G, None, FALSE, c, FALSE)
        ELSE IF ~s.ok THEN Outcome(on_error(s.G, s.msg), None, FALSE, c, TRUE)
        ELSE IF ~s.G.store.bucket THEN Outcome(s.G, None, FALSE, c, TRUE)
        ELSE Outcome([s.G EXCEPT !.store.objects = @ \cup {obj}],
                     build_public_url(obj), FALSE, c, TRUE)
    : c \in {get_minio_client(G, t)} })

\* The body of download_file (one attempt).
download_attempt(G, t, path, obj) ==
    The({
    LET s == store_call(c.G)
    IN  IF c.client.kind # "client" THEN Outcome(c.G, False, FALSE, c, FALSE)
        ELSE IF ~s.ok THEN Outcome(on_error(s.G, s.msg), False, FALSE, c, TRUE)
        ELSE IF ~s.G.store.bucket \/ obj \notin s.G.store.objects
             THEN Outcome(s.G, False, FALSE, c, TRUE)
        ELSE Outcome(s.G, True, FALSE, c, TRUE)
    : c \in {get_minio_client(G, t)} })

\* The body of delete_file (one attempt): stat_object, then remove_object.
delete_attempt(G, t, path, obj) ==
    The({
    LET stat == store_call(c.G)
        rm == store_call(stat.G)
    IN  IF c.client.kind # "client" THEN Outcome(c.G, False, FALSE, c, FALSE)
        \* the inner except returns False without looking at the message
        ELSE IF ~stat.ok \/ ~stat.G.store.bucket \/ obj \notin stat.G.store.objects
             THEN Outcome(stat.G, False, FALSE, c, TRUE)
        ELSE IF ~rm.ok THEN Outcome(on_error(rm.G, rm.msg), False, FALSE, c, TRUE)
        ELSE Outcome([rm.G EXCEPT !.store.objects = @ \ {obj}], True, FALSE, c, TRUE)
    : c \in {get_minio_client(G, t)} })

\* The body of list_files (one attempt); the listing itself is G.store.objects.
list_attempt(G, t, path, obj) ==
    The({
    LET s == store_call(c.G)
    IN  IF c.client.kind # "client" THEN Outcome(c.G, None, FALSE, c, FALSE)
        ELSE IF ~s.ok THEN Outcome(on_error(s.G, s.msg), None, FALSE, c, TRUE)
        ELSE IF ~s.G.store.bucket THEN Outcome(s.G, None, FALSE, c, TRUE)
        ELSE Outcome(s.G, True, FALSE, c, TRUE)
    : c \in {get_minio_client(G, t)} })

gateway_attempt(op, G, t, path, obj) ==
    CASE op = "upload_file" -> upload_attempt(G, t, path, obj)
      [] op = "download_file" -> download_attempt(G, t, path, obj)
      [] op = "delete_file" -> delete_attempt(G, t, path, obj)
      [] op = "list_files" -> list_attempt(G, t, path, obj)

\* @retry(stop=stop_after_attempt(max_retries), wait=wait_exponential(...)):
\* the body is called again only when it raised, at most max_retries times
\* in all; the last exception is then raised as RetryError.
RECURSIVE retrying(_, _, _, _, _, _)
retrying(op, G, t, path, obj, attempt) ==
    The({
        IF ~r.raised THEN [r EXCEPT !.attempts = attempt]
        ELSE IF attempt >= max_retries
             THEN [r EXCEPT !.attempts = attempt, !.ret = Text("RetryError")]
        ELSE The({ [n EXCEPT !.refreshes = @ + r.refreshes,
                             !.used = @ \/ r.used,
                             !.cred = IF n.used THEN n.cred ELSE r.cred]
                   : n \in {retrying(op, r.G, t, path, obj, attempt + 1)} })
    : r \in {gateway_attempt(op, G, t, path, obj)} })

upload_file(G, t, path, obj) == retrying("upload_file", G, t, path, obj, 1)
download_file(G, t, obj) == retrying("download_file", G, t, "", obj, 1)
delete_file(G, t, obj) == retrying("delete_file", G, t, "", obj, 1)
list_files(G, t) == retrying("list_files", G, t, "", None, 1)

\* get_presigned_url: the URL is signed locally with the client's credentials.
get_presigned_url(G, t, obj) ==
    The({
        IF c.client.kind # "client" THEN Outcome(c.G, None, FALSE, c, FALSE)
        ELSE Outcome(c.G, build_public_url(obj), FALSE, c, TRUE)
    : c \in {get_minio_client(G, t)} })

\* ensure_bucket: bucket_exists, then make_bucket when it is absent.
ensure_bucket(G, t) ==
    The({
    LET ex == store_call(c.G)
        mk == store_call(ex.G)
    IN  IF c.client.kind # "client" THEN Outcome(c.G, False, FALSE, c, FALSE)
        ELSE IF ~ex.ok THEN Outcome(ex.G, False, FALSE, c, TRUE)
        ELSE IF ex.G.store.bucket THEN Outcome(ex.G, True, FALSE, c, TRUE)
        ELSE IF ~mk.ok THEN Outcome(mk.G, False, FALSE, c, TRUE)
        ELSE Outcome([mk.G EXCEPT !.store.bucket = TRUE], True, FALSE, c, TRUE)
    : c \in {get_minio_client(G, t)} })

(***************************************************************************)
(* Job Ledger (db/database.py).  A ledger L maps each job id to its row of *)
(* the jobs table, NoRow when the table has no row for it.  created_at is  *)
(* the column filled by DEFAULT CURRENT_TIMESTAMP.                         *)
(***************************************************************************)
Statuses == {"queued", "processing", "completed", "failed"}
Terminal == {"completed", "failed"}
NoRow == [status |-> "absent", result_url |-> None, error_message |-> None,
          created_at |-> 0, metadata |-> None]

\* Python's binding of a call to `def store_job(job_id, status)` and to
\* `def update_job_status(job_id, status, result_url=None)`: a surplus
\* positional argument or an unknown keyword raises TypeError before the
\* body runs.
Binds(extra, keyword, keywords) == extra = 0 /\ (keyword = "" \/ keyword \in keywords)

\* Timestamps are seconds since the epoch.  CURRENT_TIMESTAMP is the UTC
\* time as text; datetime.now() is the naive local time, which sqlite3 binds
\* as text of the same layout.  tz is the UTC offset of the local time zone.
Day == 86400
FileTypes == {"image", "video"}
UtcOffsets == {0, 3600}
current_timestamp(t) == t
datetime_now(t, tz) == t + tz

\* store_job as INSERT OR REPLACE: an existing row is replaced.
store_job_or_replace(L, job_id, status, t) ==
    [L |-> [L EXCEPT ![job_id] = [NoRow EXCEPT !.status = status,
                                               !.created_at = current_timestamp(t)]],
     raised |-> FALSE]

\* store_job: INSERT INTO jobs (job_id, status); the primary key makes the
\* insert of an existing job_id raise, and get_connection rolls back.
store_job(L, job_id, status, t) ==
    IF L[job_id].status # "absent"
    THEN [L |-> L, raised |-> TRUE]
    ELSE [L |-> [L EXCEPT ![job_id] = [NoRow EXCEPT !.status = status,
                                                    !.created_at = current_timestamp(t)]],
          raised |-> FALSE]

\* update_job_status written as INSERT OR REPLACE: a missing row is created.
update_job_status_upsert(L, job_id, status, result_url) ==
    IF Truthy(result_url)
    THEN [L EXCEPT ![job_id].status = status, ![job_id].result_url = result_url]
    ELSE [L EXCEPT ![job_id].status = status]

\* update_job_status: an unconditional UPDATE ... WHERE job_id = ?; with a
\* truthy result_url the column result_url is written too.  An UPDATE that
\* matches no row changes nothing and raises nothing.
update_job_status(L, job_id, status, result_url) ==
    IF L[job_id].status = "absent" THEN L
    ELSE IF Truthy(result_url)
         THEN [L EXCEPT ![job_id].status = status, ![job_id].result_url = result_url]
    ELSE [L EXCEPT ![job_id].status = status]

\* store_generated_file: INSERT INTO generated_files with
\* file_id = f"{job_id}_{file_type}_{timestamp}".  The foreign key
\* (PRAGMA foreign_keys = ON) makes the insert raise for a job_id without
\* row, the primary key for a file_id already present.
store_generated_file(L, F, job_id, file_type, t) ==
    IF L[job_id].status = "absent" \/ \E f \in F : f.job = job_id /\ f.type = file_type /\ f.at = t
    THEN [F |-> F, raised |-> TRUE]
    ELSE [F |-> F \cup {[job |-> job_id, type |-> file_type, at |-> t,
                         created_at |-> current_timestamp(t)]},
          raised |-> FALSE]

\* delete_old_jobs(days): cutoff_date = datetime.now() - timedelta(days);
\* DELETE FROM jobs WHERE created_at < cutoff_date; ON DELETE CASCADE removes
\* the generated_files rows of the deleted jobs.
delete_old_jobs(L, F, t, tz, days) ==
    The({ [L |-> [j \in DOMAIN L |-> IF j \in removed THEN NoRow ELSE L[j]],
           F |-> {f \in F : f.job \notin removed},
           removed |-> removed]
          : removed \in {{j \in DOMAIN L : /\ L[j].status # "absent"
                                            /\ L[j].created_at < datetime_now(t, tz) - days * Day}} })

\* Whether update_job_status raises: the body has no test of the row and no
\* rowcount check, and sqlite3 executes an UPDATE that matches no row
\* without error.
update_job_status_raises(L, job_id, status, result_url) == FALSE

\* get_job_status: the row, or None.
get_job_status(L, job_id) ==
    IF L[job_id].status = "absent" THEN "none" ELSE L[job_id].status

(***************************************************************************)
(* Task Dispatcher (celery_app.py).                                        *)
(***************************************************************************)
TaskNames == {"generate_image_task", "generate_tts_task",
              "generate_video_task", "clone_voice_task"}
Queues == {"gpu", "cpu", "celery"}

\* task_routes with generate_video_task treated as a GPU-bound task.
task_routes_video_on_gpu(name, gpu) ==
    CASE name = "generate_image_task" -> IF gpu THEN "gpu" ELSE "cpu"
      [] name = "generate_tts_task" -> IF gpu THEN "gpu" ELSE "cpu"
      [] name = "generate_video_task" -> IF gpu THEN "gpu" ELSE "cpu"
      [] OTHER -> "celery"

\* app.conf.task_routes; a task name without a route goes to Celery's
\* default queue, "celery".
task_routes(name, gpu) ==
    CASE name = "generate_image_task" -> IF gpu THEN "gpu" ELSE "cpu"
      [] name = "generate_tts_task" -> IF gpu THEN "gpu" ELSE "cpu"
      [] name = "generate_video_task" -> "cpu"
      [] OTHER -> "celery"

\* start_worker: --queues=gpu for 'gpu', --queues=cpu for anything else.
worker_queue(queue) == IF queue = "gpu" THEN "gpu" ELSE "cpu"

NoTask == [name |-> "", job |-> 0, state |-> "NONE", queue |-> "", runs |-> 0,
           gen |-> "", upload |-> ""]

\* app.conf.task_annotations: the rate_limit of a task, in starts per minute
\* ('2/m', '10/m', '5/m'); 0 for a task without annotation (no limit).
task_annotations(name) ==
    CASE name = "generate_image_task" -> 2
      [] name = "generate_tts_task" -> 10
      [] name = "generate_video_task" -> 5
      [] OTHER -> 0

\* The queue names start_worker is called with (sys.argv[1], or 'default').
WorkerArgs == {"gpu", "cpu", "default"}

\* A worker instance: the queue it consumes ("off" before it is started) and
\* the number of tasks it started in each minute, by task name.  Celery
\* keeps the rate limit of a task in each worker instance.
WorkerIds == 1..MaxWorkers
Windows == 0..MaxWindows
NoWorker == [queue |-> "off",
             started |-> [m \in Windows |-> [n \in TaskNames |-> 0]]]

(***************************************************************************)
(* Scene Compositor (video/editor.py).  Durations are whole numbers of     *)
(* time units.  A scene is the dict the task receives: its duration (Auto  *)
(* = -1) and its elements; an element is the dict of the request as sent   *)
(* (Scene.elements is List[dict], so no default is filled in): has_size    *)
(* and has_duration tell whether the keys width/height and duration are    *)
(* present, length is the intrinsic length of an audio file.               *)
(* A clip is a MoviePy clip: its duration (Unset = None) and, for a scene  *)
(* clip, its layers; NoClip is Python's None.                              *)
(***************************************************************************)
Auto == -1
Unset == 0
ElementTypes == {"image", "audio", "text", "video"}
ExplicitDurations == {2}
AudioLengths == {3, 7}
SceneDurations == {Auto, 2, 3, max_duration + 1}

Element(type, has_size, has_duration, duration, length) ==
    [type |-> type, has_size |-> has_size, has_duration |-> has_duration,
     duration |-> duration, length |-> length]

\* The elements tried: each type, with the duration key absent, -1 or
\* explicit; images with and without the width/height keys; audio files of
\* each length.
Elements ==
    {e \in [type : ElementTypes, has_size : BOOLEAN, has_duration : BOOLEAN,
            duration : {Auto} \cup ExplicitDurations,
            length : {0} \cup AudioLengths] :
        /\ e.type # "image" => e.has_size
        /\ ~e.has_duration => e.duration = Auto
        /\ (e.type = "audio") = (e.length # 0)}

RECURSIVE SeqsUpTo(_, _)
SeqsUpTo(S, n) ==
    IF n = 0 THEN {<< >>}
    ELSE The({ shorter \cup {Append(q, x) : q \in {r \in shorter : Len(r) = n - 1}, x \in S}
               : shorter \in {SeqsUpTo(S, n - 1)} })

Scene(duration, elements) == [duration |-> duration, elements |-> elements]

NoClip == [kind |-> "none", duration |-> Unset, layers |-> << >>]
Layer(type, duration) == [type |-> type, duration |-> duration]
Loop(raised, scene_duration, scene_elements) ==
    [raised |-> raised, scene_duration |-> scene_duration,
     scene_elements |-> scene_elements]

\* The parameters of moviepy's ImageClip(img, ismask, transparent, fromalpha,
\* duration).
ImageClipParams == {"img", "ismask", "transparent", "fromalpha", "duration"}

\* Lines 186-193: the duration given to element_clip, and the append.
\* has_clip: element_clip is not None; d0: the duration the clip was built
\* with.  set_duration on None raises AttributeError; element["duration"]
\* on a dict without the key raises KeyError.
set_element_duration(e, sd, layers, has_clip, d0) ==
    IF ~e.has_duration THEN Loop(TRUE, sd, layers)
    ELSE IF e.duration # Auto
         THEN IF has_clip THEN Loop(FALSE, sd, Append(layers, Layer(e.type, e.duration)))
                          ELSE Loop(TRUE, sd, layers)
    ELSE IF sd # Auto
         THEN IF has_clip THEN Loop(FALSE, sd, Append(layers, Layer(e.type, sd)))
                          ELSE Loop(TRUE, sd, layers)
    ELSE IF has_clip THEN Loop(FALSE, sd, Append(layers, Layer(e.type, d0)))
                     ELSE Loop(FALSE, sd, layers)

\* One iteration of `for element in scene["elements"]` (lines 132-193).
render_element(e, sd, layers) ==
    CASE e.type = "image" ->
            \* element["width"] and element["height"] are subscripted
            IF ~e.has_size THEN Loop(TRUE, sd, layers)
            ELSE set_element_duration(e, sd, layers, TRUE, Unset)
      [] e.type = "audio" ->
            \* element_clip is None here, so the else arm builds the
            \* background with ImageClip(color=..., duration=...)
            IF ~Binds(0, "color", ImageClipParams)
            THEN Loop(TRUE, IF sd = Auto THEN e.length ELSE sd, layers)
            ELSE set_element_duration(e, IF sd = Auto THEN e.length ELSE sd,
                                      layers, TRUE, e.length)
      [] e.type = "text" -> set_element_duration(e, sd, layers, TRUE, Unset)
      [] OTHER -> set_element_duration(e, sd, layers, FALSE, Unset)

\* The loop over the first n elements; an exception ends it.
RECURSIVE render_elements(_, _)
render_elements(scene, n) ==
    IF n = 0 THEN Loop(FALSE, scene.duration, << >>)
    ELSE The({ IF before.raised THEN before
               ELSE render_element(scene.elements[n], before.scene_duration,
                                   before.scene_elements)
               : before \in {render_elements(scene, n - 1)} })

RECURSIVE MaxDuration(_, _)
MaxDuration(layers, n) ==
    IF n = 0 THEN 0
    ELSE The({ IF layers[n].duration > m THEN layers[n].duration ELSE m
               : m \in {MaxDuration(layers, n - 1)} })

\* moviepy's CompositeVideoClip(clips): its duration is the latest end of
\* its clips when every clip has one, and None otherwise.
CompositeVideoClip(layers) ==
    [kind |-> "clip",
     duration |-> IF \E i \in 1..Len(layers) : layers[i].duration = Unset
                  THEN Unset ELSE MaxDuration(layers, Len(layers)),
     layers |-> layers]

\* render_scene: the scene clip, or None when the scene has no element clip
\* or an exception was raised (it is logged and swallowed).
render_scene(scene) ==
    The({ IF r.raised \/ r.scene_elements = << >> THEN NoClip
          ELSE IF r.scene_duration # Auto
               THEN [CompositeVideoClip(r.scene_elements)
                        EXCEPT !.duration = r.scene_duration]
               ELSE CompositeVideoClip(r.scene_elements)
          : r \in {render_elements(scene, Len(scene.elements))} })

NoRender == [called |-> FALSE, scene |-> Scene(Auto, << >>), clip |-> NoClip]
NoTimeline == [kind |-> "none", duration |-> Unset, clips |-> << >>]
NoVideo == [called |-> FALSE, scenes |-> << >>, timeline |-> NoTimeline,
            written |-> FALSE, uploaded |-> FALSE, ret |-> None]

(***************************************************************************)
(* Threads of one process that call the gateway (storage/minio_client.py). *)
(* Thread 0 is the main thread, which imports the module.                  *)
(***************************************************************************)
ThreadIds == 0..MaxThreads
NoThread == [pc |-> "idle", access_key |-> 0, secret_key |-> 0,
             session_token |-> 0, fetched |-> 0, calls |-> 0]

(***************************************************************************)
(* The size of an image element (video/editor.py, lines 135-144): the clip *)
(* is resized only when width and height are both given; resize(width=,    *)
(* height=) of moviepy takes the height and derives the width from the     *)
(* source's ratio (`elif height is not None` comes before the width arm).  *)
(* Sizes are <<width, height>> in pixels.                                  *)
(***************************************************************************)
FrameSize == <<1280, 720>>
ImageSizes == {<<1920, 1080>>, <<640, 480>>, <<1000, 1000>>, <<1280, 720>>, <<300, 900>>}
ElementWidths == {Auto, 200, 640, 1280, 1920}
ElementHeights == {Auto, 100, 360, 720, 1080}

resize(size, width, height) == <<(size[1] * height) \div size[2], height>>

image_element_size(size, width, height) ==
    IF width # Auto /\ height # Auto THEN resize(size, width, height) ELSE size

NoResize == [called |-> FALSE, source |-> <<0, 0>>, width |-> Auto, height |-> Auto,
             size |-> <<0, 0>>]

(***************************************************************************)
(* GET /status/{job_id} (app.py): the handler is wrapped by                *)
(* @cache(expire=CACHE_TIMES["status"]) of fastapi-cache, which stores the *)
(* value the handler returned under a key made of the function and its     *)
(* arguments and answers from the entry until it expires.  A raised        *)
(* HTTPException is not stored.                                            *)
(***************************************************************************)
status_cache_time == 30
NoEntry == [status |-> "", expires |-> 0]
NoStatus == [job |-> 0, code |-> 0, returned |-> "", stored |-> "", cached |-> FALSE]

(***************************************************************************)
(* Connections of concurrent callers of update_job_status (db/database.py):*)
(* each call opens its own sqlite3 connection.  pc: idle, execute (the     *)
(* UPDATE is about to run), commit (the UPDATE ran inside the connection's *)
(* transaction, image is the row as the transaction holds it).             *)
(***************************************************************************)
ConnIds == 1..MaxConns
NoConn == [pc |-> "idle", job |-> 0, status |-> "", result_url |-> None, image |-> NoRow,
           overlapped |-> FALSE, committed |-> 0, begun |-> 0]

(***************************************************************************)
(* State.                                                                  *)
(***************************************************************************)
VARIABLES
    jobs,               \* the jobs table
    tasks,              \* the task messages and their Celery state
    gpu_available,      \* torch.cuda.is_available() at start-up
    pools,              \* the queues consumed by running workers
    last_response,      \* the last answer of a submission endpoint
    now,                \* time.time()
    minio_credentials,  \* the global MinioCredentials instance
    client_cache,       \* lru_cache of get_minio_client
    store,              \* the remote object store
    issuer_up,          \* whether the credential issuer answers
    last_op,            \* what the last gateway call did
    last_update_call,   \* the last direct call of update_job_status
    broker,             \* the messages waiting on each queue, by task name
    workers,            \* the worker instances: queue and starts this minute
    window,             \* the current minute
    sent,               \* the number of messages sent, by task name
    rendered,           \* the last call of render_scene
    video,              \* the last call of create_video_from_scenes
    last_store_call,    \* the last direct call of store_job
    last_result,        \* the last answer of GET /result/{job_id}
    generated_files,    \* the generated_files table
    last_request,       \* the last POST on a submission endpoint, with key and body
    threads,            \* the threads inside a gateway call
    last_sweep,         \* the last call of delete_old_jobs
    conns,              \* the connections inside an update_job_status call
    resized,            \* the last image element sized by render_scene
    status_cache,       \* fastapi-cache entries of GET /status/{job_id}
    last_status         \* the last answer of GET /status/{job_id}

ledgerVars == <<jobs, last_update_call>>
pipeVars == <<tasks, gpu_available, pools, last_response>>
gwVars == <<minio_credentials, client_cache, store, issuer_up, last_op>>
dispVars == <<broker, workers, window, sent>>
compVars == <<rendered, video>>
auxVars == <<conns, resized, status_cache, last_status>>
extVars == <<last_store_call, last_result, generated_files, last_request, threads,
             last_sweep, auxVars>>
vars == <<jobs, last_update_call, tasks, gpu_available, pools, last_response,
          now, minio_credentials, client_cache, store, issuer_up, last_op,
          broker, workers, window, sent, rendered, video, last_store_call,
          last_result, generated_files, last_request, threads, last_sweep, conns, resized, status_cache, last_status>>

G == [mc |-> minio_credentials, cache |-> client_cache, store |-> store,
      issuer |-> issuer_up]

\* The record kept of a gateway call: the outcome without the state, plus
\* what the call found (time, last_update, coming store failures, cache).
OpRecord(op, r, t, g, path) ==
    [op |-> op, ret |-> r.ret, raised |-> r.raised, refreshes |-> r.refreshes,
     used |-> r.used, cred |-> r.cred, attempts |-> r.attempts, at |-> t,
     last_update_before |-> g.mc.last_update, fails_before |-> g.store.fails,
     cache_before |-> g.cache.kind, bucket_before |-> g.store.bucket,
     path |-> path]

SetGateway(op, r, t, g, path) ==
    /\ minio_credentials' = r.G.mc
    /\ client_cache' = r.G.cache
    /\ store' = r.G.store
    /\ issuer_up' = r.G.issuer
    /\ last_op' = OpRecord(op, r, t, g, path)

(***************************************************************************)
(* Initial state: the state after the modules are imported.  Importing     *)
(* storage/minio_client.py creates the empty MinioCredentials and then     *)
(* calls ensure_bucket(), whose get_minio_client() call fills the          *)
(* lru_cache; importing db/database.py creates the empty tables.           *)
(***************************************************************************)
Pristine(iss, f, k, b) ==
    [mc |-> [credentials |-> 0, last_update |-> 0],
     cache |-> EmptyCache,
     store |-> [fails |-> f, fault |-> IF f = 0 THEN "" ELSE k, bucket |-> b,
                objects |-> {}],
     issuer |-> iss]

NoStoreCall == [job |-> 0, status |-> "", raised |-> FALSE, existed |-> FALSE]
NoSweep == [called |-> FALSE, at |-> 0, days |-> 0, older |-> {}, removed |-> {}]
NoResult == [job |-> 0, before |-> "", code |-> 0, result_url |-> None]
NoRequest == [endpoint |-> "", key |-> "", payload |-> "", code |-> 0, created |-> 0,
              enqueued |-> 0]

NoResponse == [endpoint |-> "", job |-> 0, code |-> 0, seen |-> "", enqueued |-> 0,
               sample |-> FALSE]
NoCall == [job |-> 0, status |-> "", result_url |-> None, before |-> NoRow,
           raised |-> FALSE]

\* The import of storage/minio_client.py with the environment env.
ImportGateway(env) ==
    \E g \in env : \E r \in {ensure_bucket(g, StartTime)} :
        /\ minio_credentials = r.G.mc
        /\ client_cache = r.G.cache
        /\ store = r.G.store
        /\ issuer_up = r.G.issuer
        /\ last_op = OpRecord("import", r, StartTime, g, "")

AnyEnvironment ==
    {Pristine(iss, f, k, b) : iss \in BOOLEAN, f \in 0..MaxFails, k \in Faults,
                              b \in BOOLEAN}

\* Everything but the gateway and the capability flag, with the ledger L.
InitWithLedger(L) ==
    /\ last_store_call = NoStoreCall
    /\ last_result = NoResult
    /\ generated_files = {}
    /\ last_request = NoRequest
    /\ threads = [t \in ThreadIds |-> NoThread]
    /\ conns = [c \in ConnIds |-> NoConn]
    /\ resized = NoResize
    /\ status_cache = [j \in JobIds |-> NoEntry]
    /\ last_status = NoStatus
    /\ last_sweep = NoSweep
    /\ jobs = L
    /\ last_update_call = NoCall
    /\ tasks = [i \in TaskIds |-> NoTask]
    /\ pools = {}
    /\ last_response = NoResponse
    /\ now = StartTime
    /\ broker = [q \in Queues |-> [n \in TaskNames |-> 0]]
    /\ workers = [w \in WorkerIds |-> NoWorker]
    /\ window = 0
    /\ sent = [n \in TaskNames |-> 0]
    /\ rendered = NoRender
    /\ video = NoVideo

InitBase == InitWithLedger([j \in JobIds |-> NoRow])

Init ==
    /\ InitBase
    /\ gpu_available \in BOOLEAN
    /\ ImportGateway(AnyEnvironment)

\* The gateway on its own: the capability flag plays no part.
InitGateway ==
    /\ InitBase
    /\ gpu_available = FALSE
    /\ ImportGateway(AnyEnvironment)

\* The ledger on its own: neither the flag nor the gateway plays a part.
InitLedger ==
    /\ InitBase
    /\ gpu_available = FALSE
    /\ ImportGateway({Pristine(TRUE, 0, "", TRUE)})

(***************************************************************************)
(* The environment of the gateway: time, the store and the issuer.         *)
(***************************************************************************)
Tick ==
    /\ now < StartTime + MaxTicks * TickStep
    /\ now' = now + TickStep
    /\ UNCHANGED <<extVars, dispVars, compVars, ledgerVars, pipeVars, gwVars>>

StoreFault ==
    /\ store.fails = 0
    /\ \E n \in 1..MaxFails, k \in Faults :
          store' = [store EXCEPT !.fails = n, !.fault = k]
    /\ UNCHANGED <<extVars, dispVars, compVars, ledgerVars, pipeVars, now, minio_credentials, client_cache,
                   issuer_up, last_op>>

IssuerChange ==
    /\ issuer_up' = ~issuer_up
    /\ UNCHANGED <<extVars, dispVars, compVars, ledgerVars, pipeVars, now, minio_credentials, client_cache,
                   store, last_op>>

\* last_update forced to 0 from outside a gateway call.
ForceRefresh ==
    /\ minio_credentials.last_update # 0
    /\ minio_credentials' = [minio_credentials EXCEPT !.last_update = 0]
    /\ UNCHANGED <<extVars, dispVars, compVars, ledgerVars, pipeVars, now, client_cache, store, issuer_up,
                   last_op>>

(***************************************************************************)
(* Gateway operations called directly.                                     *)
(***************************************************************************)
GatewayObjects == {ObjectName("images", 1, "png")}

UploadFile ==
    /\ \E path \in {"file", "none"}, obj \in GatewayObjects, g \in {G} :
          \E r \in {upload_file(g, now, path, obj)} :
             SetGateway("upload_file", r, now, g, path)
    /\ UNCHANGED <<extVars, dispVars, compVars, ledgerVars, pipeVars, now>>

DownloadFile ==
    /\ \E obj \in GatewayObjects, g \in {G} :
          \E r \in {download_file(g, now, obj)} :
             SetGateway("download_file", r, now, g, "")
    /\ UNCHANGED <<extVars, dispVars, compVars, ledgerVars, pipeVars, now>>

DeleteFile ==
    /\ \E obj \in GatewayObjects, g \in {G} :
          \E r \in {delete_file(g, now, obj)} :
             SetGateway("delete_file", r, now, g, "")
    /\ UNCHANGED <<extVars, dispVars, compVars, ledgerVars, pipeVars, now>>

ListFiles ==
    /\ \E g \in {G} : \E r \in {list_files(g, now)} :
          SetGateway("list_files", r, now, g, "")
    /\ UNCHANGED <<extVars, dispVars, compVars, ledgerVars, pipeVars, now>>

GetPresignedUrl ==
    /\ \E obj \in GatewayObjects, g \in {G} :
          \E r \in {get_presigned_url(g, now, obj)} :
             SetGateway("get_presigned_url", r, now, g, "")
    /\ UNCHANGED <<extVars, dispVars, compVars, ledgerVars, pipeVars, now>>

EnsureBucket ==
    /\ \E g \in {G} : \E r \in {ensure_bucket(g, now)} :
          SetGateway("ensure_bucket", r, now, g, "")
    /\ UNCHANGED <<extVars, dispVars, compVars, ledgerVars, pipeVars, now>>

NextGateway ==
    \/ Tick
    \/ StoreFault
    \/ IssuerChange
    \/ ForceRefresh
    \/ UploadFile
    \/ DownloadFile
    \/ DeleteFile
    \/ ListFiles
    \/ GetPresignedUrl
    \/ EnsureBucket

SpecGateway == InitGateway /\ [][NextGateway]_vars

(***************************************************************************)
(* The ledger called directly (db/database.py used as a library).          *)
(***************************************************************************)
ResultUrls(j) == {None, Text(""), Text("error"),
                  build_public_url(ObjectName("images", j, "png"))}

StoreJob ==
    /\ \E j \in JobIds, s \in Statuses : \E r \in {store_job(jobs, j, s, now)} :
          /\ jobs' = r.L
          /\ last_store_call' = [job |-> j, status |-> s, raised |-> r.raised,
                                 existed |-> jobs[j].status # "absent"]
    /\ UNCHANGED <<auxVars, last_result, generated_files, last_request, threads, last_sweep, dispVars,
                   compVars, last_update_call, pipeVars, now, gwVars>>

UpdateJobStatus ==
    /\ \E j \in JobIds, s \in Statuses : \E u \in ResultUrls(j) :
          /\ jobs' = update_job_status(jobs, j, s, u)
          /\ last_update_call' = [job |-> j, status |-> s, result_url |-> u,
                                  before |-> jobs[j],
                                  raised |-> update_job_status_raises(jobs, j, s, u)]
    /\ UNCHANGED <<extVars, dispVars, compVars, pipeVars, now, gwVars>>

NextLedger ==
    \/ StoreJob
    \/ UpdateJobStatus

SpecLedger == InitLedger /\ [][NextLedger]_vars

(***************************************************************************)
(* update_job_status called by several processes at once.  The UPDATE      *)
(* takes SQLite's write lock for the connection's transaction; another     *)
(* connection's UPDATE waits for the lock (timeout=30) and raises          *)
(* OperationalError("database is locked") when it does not get it.         *)
(* conn.commit() makes the transaction's row the stored row and frees the  *)
(* lock.                                                                   *)
(***************************************************************************)
\* The UPDATE of every connection runs at once, without a write lock.
write_lock_ignored(C, c) == TRUE

\* No other connection holds the write lock.
write_lock_free(C, c) == \A o \in ConnIds \ {c} : C[o].pc # "commit"

ConnUrls(j) == {None, build_public_url(ObjectName("images", j, "png"))}
Begun == SumOver([c \in ConnIds |-> conns[c].begun], ConnIds)

ConnBegin ==
    /\ \E c \in ConnIds, j \in JobIds, s \in Terminal : \E u \in ConnUrls(j) :
          /\ conns[c].pc = "idle"
          /\ Begun < MaxUpdates
          /\ jobs[j].status # "absent"
          /\ conns' = [conns EXCEPT ![c] =
                [NoConn EXCEPT !.pc = "execute", !.job = j, !.status = s,
                               !.result_url = u, !.committed = conns[c].committed,
                               !.begun = conns[c].begun + 1,
                               !.overlapped = \E o \in ConnIds \ {c} :
                                                 /\ conns[o].pc # "idle"
                                                 /\ conns[o].job = j]]
    /\ UNCHANGED <<resized, status_cache, last_status, last_store_call, last_result, generated_files, last_request, threads,
                   last_sweep, dispVars, compVars, ledgerVars, pipeVars, now, gwVars>>

ConnExecute ==
    /\ \E c \in ConnIds :
          /\ conns[c].pc = "execute"
          /\ write_lock_free(conns, c)
          /\ conns' = [conns EXCEPT
                ![c].pc = "commit",
                ![c].image = update_job_status(jobs, conns[c].job, conns[c].status,
                                               conns[c].result_url)[conns[c].job]]
    /\ UNCHANGED <<resized, status_cache, last_status, last_store_call, last_result, generated_files, last_request, threads,
                   last_sweep, dispVars, compVars, ledgerVars, pipeVars, now, gwVars>>

\* The lock was not freed within the timeout: get_connection rolls back
\* and re-raises.
ConnBusy ==
    /\ \E c \in ConnIds :
          /\ conns[c].pc = "execute"
          /\ ~write_lock_free(conns, c)
          /\ conns' = [conns EXCEPT ![c].pc = "idle"]
    /\ UNCHANGED <<resized, status_cache, last_status, last_store_call, last_result, generated_files, last_request, threads,
                   last_sweep, dispVars, compVars, ledgerVars, pipeVars, now, gwVars>>

ConnCommit ==
    /\ \E c \in ConnIds :
          /\ conns[c].pc = "commit"
          /\ jobs' = [jobs EXCEPT ![conns[c].job] = conns[c].image]
          /\ conns' = [conns EXCEPT ![c].pc = "idle",
                                    ![c].committed = conns[c].committed + 1]
    /\ UNCHANGED <<resized, status_cache, last_status, last_store_call, last_result, generated_files, last_request, threads,
                   last_sweep, dispVars, compVars, last_update_call, pipeVars, now,
                   gwVars>>

\* A producer has stored job 1, which a task is now working on.
InitConcurrent ==
    /\ InitWithLedger(store_job([j \in JobIds |-> NoRow], 1, "processing", StartTime).L)
    /\ gpu_available = FALSE
    /\ ImportGateway({Pristine(TRUE, 0, "", TRUE)})

NextConcurrent ==
    \/ ConnBegin
    \/ ConnExecute
    \/ ConnBusy
    \/ ConnCommit

SpecConcurrent == InitConcurrent /\ [][NextConcurrent]_vars

\* No gateway function was called.
NoGatewayCall(g) ==
    [G |-> g, ret |-> None, raised |-> FALSE, refreshes |-> 0, used |-> FALSE,
     cred |-> 0, attempts |-> 0]

(***************************************************************************)
(* GET /result/{job_id} (app.py) on a ledger filled by store_job.          *)
(***************************************************************************)
\* get_job_result without the test of the job's status.
get_job_result_any_status(L, g, t, job_id) ==
    IF get_job_status(L, job_id) = "none"
    THEN [code |-> 404, result_url |-> None, p |-> NoGatewayCall(g)]
    ELSE The({ IF p.ret.kind # "url"
               THEN [code |-> 500, result_url |-> None, p |-> p]
               ELSE [code |-> 200, result_url |-> p.ret, p |-> p]
               : p \in {get_presigned_url(g, t, ObjectName("videos", job_id, "mp4"))} })

\* get_job_result: 404 for a job get_job_status does not find, 400 for a job
\* that is not completed; otherwise the presigned URL of videos/<job>.mp4.
\* JobResultResponse(result_url=None) fails the model's validation, which
\* the handler turns into 500.
get_job_result(L, g, t, job_id) ==
    IF get_job_status(L, job_id) = "none"
    THEN [code |-> 404, result_url |-> None, p |-> NoGatewayCall(g)]
    ELSE IF get_job_status(L, job_id) # "completed"
    THEN [code |-> 400, result_url |-> None, p |-> NoGatewayCall(g)]
    ELSE The({ IF p.ret.kind # "url"
               THEN [code |-> 500, result_url |-> None, p |-> p]
               ELSE [code |-> 200, result_url |-> p.ret, p |-> p]
               : p \in {get_presigned_url(g, t, ObjectName("videos", job_id, "mp4"))} })

GetJobResult ==
    /\ \E j \in JobIds, g \in {G} : \E r \in {get_job_result(jobs, g, now, j)} :
          /\ last_result' = [job |-> j, before |-> jobs[j].status, code |-> r.code,
                             result_url |-> r.result_url]
          /\ minio_credentials' = r.p.G.mc
          /\ client_cache' = r.p.G.cache
          /\ store' = r.p.G.store
          /\ issuer_up' = r.p.G.issuer
          /\ last_op' = IF r.p.attempts = 0 THEN last_op
                        ELSE OpRecord("get_presigned_url", r.p, now, g, "")
    /\ UNCHANGED <<auxVars, last_store_call, generated_files, last_request, threads, last_sweep, dispVars,
                   compVars, ledgerVars, pipeVars, now>>

NextResult ==
    \/ StoreJob
    \/ GetJobResult

SpecResult == InitLedger /\ [][NextResult]_vars

(***************************************************************************)
(* The generated_files table and the removal of old jobs (db/database.py). *)
(***************************************************************************)
SweepDays == {0, 7}

StoreGeneratedFile ==
    /\ \E j \in JobIds, ft \in FileTypes :
       \E r \in {store_generated_file(jobs, generated_files, j, ft, now)} :
          /\ Cardinality(generated_files) < MaxFiles
          /\ generated_files' = r.F
    /\ UNCHANGED <<auxVars, last_store_call, last_result, last_request, threads, last_sweep,
                   dispVars, compVars, ledgerVars, pipeVars, now, gwVars>>

DeleteOldJobs ==
    /\ \E days \in SweepDays, tz \in UtcOffsets :
       \E r \in {delete_old_jobs(jobs, generated_files, now, tz, days)} :
          /\ jobs' = r.L
          /\ generated_files' = r.F
          /\ last_sweep' = [called |-> TRUE, at |-> now, days |-> days,
                            older |-> {j \in JobIds :
                                          /\ jobs[j].status # "absent"
                                          /\ jobs[j].created_at < now - days * Day},
                            removed |-> r.removed]
    /\ UNCHANGED <<auxVars, last_store_call, last_result, last_request, threads, dispVars,
                   compVars, last_update_call, pipeVars, now, gwVars>>

NextRetention ==
    \/ StoreJob
    \/ StoreGeneratedFile
    \/ DeleteOldJobs
    \/ Tick

SpecRetention == InitLedger /\ [][NextRetention]_vars

(***************************************************************************)
(* Request Surface (app.py) and producers.                                 *)
(***************************************************************************)
Endpoints == {"generate-video", "generate-image", "generate-tts", "clone-voice"}

\* Number of positional arguments the endpoint passes to store_job beyond
\* (job_id, "queued"): request.dict() in generate_video, generate_image and
\* generate_tts, nothing in clone_voice.
store_job_extra(endpoint) == IF endpoint = "clone-voice" THEN 0 ELSE 1

\* The tasks the endpoint enqueues once the job is stored.
endpoint_tasks(endpoint, sample) ==
    CASE endpoint = "generate-video" -> <<"generate_video_task">>
      [] endpoint = "generate-image" -> <<"generate_image_task">>
      [] endpoint = "clone-voice" -> <<"clone_voice_task">>
      [] endpoint = "generate-tts" ->
            IF sample THEN <<"clone_voice_task", "generate_tts_task">>
                      ELSE <<"generate_tts_task">>

\* request.dict(), the parameters of the request to the endpoint.
request_dict(endpoint) == Text(endpoint)

\* The success status of the route: status_code=202, or FastAPI's 200 for
\* clone_voice, which sets none.
endpoint_code(endpoint) == IF endpoint = "clone-voice" THEN 200 ELSE 202

\* A submission handler for an authenticated, valid request with a fresh
\* uuid4 job_id: store_job, then .delay for each task.  An exception of
\* store_job ends the request with 500 before anything is enqueued.
submit_request(endpoint, L, job_id, sample, t) ==
    The({
        IF st.raised
        THEN [L |-> L, code |-> 500, enqueue |-> << >>]
        ELSE [L |-> st.L, code |-> endpoint_code(endpoint),
              enqueue |-> endpoint_tasks(endpoint, sample)]
    : st \in {IF Binds(store_job_extra(endpoint), "", {})
              THEN store_job(L, job_id, "queued", t)
              ELSE [L |-> L, raised |-> TRUE]} })

FreeTasks == {i \in TaskIds : tasks[i].state = "NONE"}
FirstFree(n) == {i \in FreeTasks : Cardinality({k \in FreeTasks : k < i}) < n}
Rank(i) == Cardinality({k \in FreeTasks : k < i}) + 1

\* task.delay(job_id, request_data) for each name of the sequence names.
delay(names, job_id) ==
    [i \in TaskIds |->
        IF i \in FirstFree(Len(names))
        THEN [NoTask EXCEPT !.name = names[Rank(i)], !.job = job_id,
                            !.state = "PENDING",
                            !.queue = task_routes(names[Rank(i)], gpu_available)]
        ELSE tasks[i]]

FreshJobIds == {j \in JobIds : jobs[j].status = "absent"
                               /\ \A i \in TaskIds : tasks[i].job # j}

SubmitRequest ==
    /\ \E e \in Endpoints, j \in FreshJobIds, sample \in BOOLEAN :
       \E r \in {submit_request(e, jobs, j, sample, now)} :
          /\ sample => e = "generate-tts"
          /\ Len(r.enqueue) <= Cardinality(FreeTasks)
          /\ jobs' = r.L
          /\ tasks' = delay(r.enqueue, j)
          /\ last_response' = [endpoint |-> e, job |-> j, code |-> r.code,
                               seen |-> get_job_status(r.L, j),
                               enqueued |-> Len(r.enqueue), sample |-> sample]
    /\ UNCHANGED <<extVars, dispVars, compVars, last_update_call, gpu_available, pools, now, gwVars>>

\* config.py: API_KEY = os.getenv("API_KEY", "minha-chave-api")
API_KEY == "minha-chave-api"
\* The X-API-Key header of a request: absent (""), wrong, or the key.
ApiKeys == {"", "invalid-key", API_KEY}
\* The JSON body of a request: one the endpoint's model accepts, or {} with
\* a required field missing.
Payloads == {"valid", "invalid"}

\* authenticate_api_key without the comparison with API_KEY.
authenticate_any_key(x_api_key) ==
    IF x_api_key = "" THEN 422 ELSE 0

\* authenticate_api_key: Header(...) makes the header required (422 when it
\* is absent); a key other than API_KEY raises HTTPException(401).  0: the
\* dependency returned True.
authenticate_api_key(x_api_key) ==
    IF x_api_key = "" THEN 422
    ELSE IF x_api_key # API_KEY THEN 401
    ELSE 0

\* One POST on a submission endpoint.  FastAPI resolves the dependency and
\* validates the body against the request model before it calls the
\* handler: an HTTPException of the dependency or a validation error (422)
\* answers the request and the handler's body does not run.
post_request(endpoint, x_api_key, payload, L, job_id, sample, t) ==
    IF authenticate_api_key(x_api_key) # 0
    THEN [L |-> L, code |-> authenticate_api_key(x_api_key), enqueue |-> << >>]
    ELSE IF payload # "valid"
    THEN [L |-> L, code |-> 422, enqueue |-> << >>]
    ELSE submit_request(endpoint, L, job_id, sample, t)

PostRequest ==
    /\ \E e \in Endpoints, j \in FreshJobIds, sample \in BOOLEAN,
          k \in ApiKeys, b \in Payloads :
       \E r \in {post_request(e, k, b, jobs, j, sample, now)} :
          /\ sample => e = "generate-tts"
          /\ Len(r.enqueue) <= Cardinality(FreeTasks)
          /\ jobs' = r.L
          /\ tasks' = delay(r.enqueue, j)
          /\ last_request' =
                [endpoint |-> e, key |-> k, payload |-> b, code |-> r.code,
                 created |-> Cardinality({i \in JobIds : r.L[i] # jobs[i]}),
                 enqueued |-> Len(r.enqueue)]
    /\ UNCHANGED <<auxVars, last_store_call, last_result, generated_files, threads, last_sweep,
                   dispVars, compVars, last_update_call, gpu_available, pools,
                   last_response, now, gwVars>>

\* A producer that uses the ledger and the tasks as a library:
\* store_job(job_id, "queued"), then <task>.delay(job_id, request_data).
Submit ==
    /\ \E name \in TaskNames, j \in FreshJobIds :
       \E r \in {store_job(jobs, j, "queued", now)} :
          /\ ~r.raised
          /\ FreeTasks # {}
          /\ jobs' = r.L
          /\ tasks' = delay(<<name>>, j)
    /\ UNCHANGED <<extVars, dispVars, compVars, last_update_call, gpu_available, pools, last_response, now, gwVars>>

(***************************************************************************)
(* Workers.                                                                *)
(***************************************************************************)
StartWorker ==
    /\ \E q \in {"gpu", "cpu", "default"} :
          /\ worker_queue(q) \notin pools
          /\ pools' = pools \cup {worker_queue(q)}
    /\ UNCHANGED <<extVars, dispVars, compVars, ledgerVars, tasks, gpu_available, last_response, now, gwVars>>

\* A worker of the app started without --queues consumes the default queue.
StartDefaultWorker ==
    /\ "celery" \notin pools
    /\ pools' = pools \cup {"celery"}
    /\ UNCHANGED <<extVars, dispVars, compVars, ledgerVars, tasks, gpu_available, last_response, now, gwVars>>

\* A worker that consumes the task's queue receives the message and starts
\* the task (task_track_started).
Pickup ==
    /\ \E i \in TaskIds :
          /\ tasks[i].state = "PENDING"
          /\ tasks[i].queue \in pools
          /\ tasks' = [tasks EXCEPT ![i].state = "STARTED"]
    /\ UNCHANGED <<extVars, dispVars, compVars, ledgerVars, gpu_available, pools, last_response, now, gwVars>>

(***************************************************************************)
(* Task bodies (tasks/tasks.py).  Each operator gives what one execution   *)
(* of the body does: the ledger and the gateway it leaves, the Celery      *)
(* state of the task (FAILURE when the body raised) and what happened to   *)
(* the artifact.                                                           *)
(***************************************************************************)
UpdateParams == {"job_id", "status", "result_url"}
GenerateTtsParams == {"text", "job_id", "voice_name", "language"}
\* The names tasks/tasks.py binds at module level (imports and logger).
TasksModuleNames == {"uuid", "logging", "app", "generate_image", "generate_tts",
                     "create_video_from_scenes", "upload_file",
                     "update_job_status", "logger"}

Uploaded(r) == IF r.attempts = 0 THEN "" ELSE IF r.ret.kind = "url" THEN "ok" ELSE "failed"

\* `except Exception as e: update_job_status(job_id, "failed", str(e)); raise`
task_failed(L, job_id, r, msg, gen) ==
    [L |-> update_job_status(L, job_id, "failed", Text(msg)), r |-> r,
     state |-> "FAILURE", gen |-> gen, upload |-> Uploaded(r)]

\* stable_diffusion.generate_image: the path of the image, or None when the
\* generation failed (every exception is caught and logged).
generate_image(gen) == IF gen = "ok" THEN "file" ELSE "none"

\* generate_image_task with the time of the run in the object name.
generate_image_task_timestamped(L, g, t, job_id, gen) ==
    The({
        IF r.raised THEN task_failed(L, job_id, r, "RetryError", gen)
        ELSE [L |-> update_job_status(L, job_id, "completed", r.ret), r |-> r,
              state |-> "SUCCESS", gen |-> gen, upload |-> Uploaded(r)]
    : r \in {upload_file(g, t, generate_image(gen),
                         [ObjectName("images", job_id, "png") EXCEPT !.text = ToString(t)])} })

generate_image_task(L, g, t, job_id, gen) ==
    The({
        IF r.raised THEN task_failed(L, job_id, r, "RetryError", gen)
        ELSE [L |-> update_job_status(L, job_id, "completed", r.ret), r |-> r,
              state |-> "SUCCESS", gen |-> gen, upload |-> Uploaded(r)]
    : r \in {upload_file(g, t, generate_image(gen), ObjectName("images", job_id, "png"))} })

\* video.editor.create_video_from_scenes: renders, uploads videos/<job>.mp4
\* and returns the URL; returns None on any exception.
create_video_from_scenes(g, t, job_id, gen) ==
    IF gen # "ok" THEN NoGatewayCall(g)
    ELSE The({ IF r.raised THEN [r EXCEPT !.ret = None, !.raised = FALSE] ELSE r
               : r \in {upload_file(g, t, "file", ObjectName("videos", job_id, "mp4"))} })

generate_video_task(L, g, t, job_id, gen) ==
    The({ [L |-> update_job_status(L, job_id, "completed", r.ret), r |-> r,
           state |-> "SUCCESS", gen |-> gen, upload |-> Uploaded(r)]
          : r \in {create_video_from_scenes(g, t, job_id, gen)} })

\* tts.fish_speech.generate_tts(text, job_id, voice_name, language):
\* generates, uploads audio/<job>.wav and returns the URL, or None.
generate_tts(g, t, job_id, gen) ==
    IF gen # "ok" THEN NoGatewayCall(g)
    ELSE The({ IF r.raised THEN [r EXCEPT !.ret = None, !.raised = FALSE] ELSE r
               : r \in {upload_file(g, t, "file", ObjectName("audio", job_id, "wav"))} })

\* The task calls generate_tts(text=, language=, voice=): `voice` is no
\* parameter of generate_tts, so the call raises TypeError.
generate_tts_task(L, g, t, job_id, gen) ==
    IF ~Binds(0, "voice", GenerateTtsParams)
    THEN task_failed(L, job_id, NoGatewayCall(g), "TypeError", "")
    ELSE The({ The({
            IF r.raised THEN task_failed(L, job_id, r, "RetryError", gen)
            ELSE [L |-> update_job_status(L, job_id, "completed", r.ret), r |-> r,
                  state |-> "SUCCESS", gen |-> gen, upload |-> Uploaded(r)]
            \* the value returned by generate_tts is a URL or None, not a local file
            : r \in {upload_file(a.G, t, "none", ObjectName("audios", job_id, "wav"))} })
         : a \in {generate_tts(g, t, job_id, gen)} })

\* clone_voice_task: update_job_status(job_id, "processing"), then
\* tts.clone_voice(...) with `tts` not bound in tasks/tasks.py (NameError);
\* the success arm passes metadata= and the except arm error_message= to
\* update_job_status, which has neither parameter (TypeError): the handler
\* itself raises before the ledger is written.
clone_voice_task(L, g, t, job_id, gen) ==
    LET L1 == update_job_status(L, job_id, "processing", None)
        cloned == "tts" \in TasksModuleNames /\ gen = "ok"
        done == cloned /\ Binds(0, "metadata", UpdateParams)
        handled == Binds(0, "error_message", UpdateParams)
    IN  IF done
        THEN [L |-> update_job_status(L1, job_id, "completed", None),
              r |-> NoGatewayCall(g), state |-> "SUCCESS", gen |-> gen, upload |-> ""]
        ELSE [L |-> IF handled THEN update_job_status(L1, job_id, "failed", None)
                               ELSE L1,
              r |-> NoGatewayCall(g), state |-> "FAILURE", gen |-> gen, upload |-> ""]

task_body(name, L, g, t, job_id, gen) ==
    CASE name = "generate_image_task" -> generate_image_task(L, g, t, job_id, gen)
      [] name = "generate_tts_task" -> generate_tts_task(L, g, t, job_id, gen)
      [] name = "generate_video_task" -> generate_video_task(L, g, t, job_id, gen)
      [] name = "clone_voice_task" -> clone_voice_task(L, g, t, job_id, gen)

\* A worker runs the body of a started task to its end.  No task sets
\* autoretry_for or calls self.retry, so a raised exception ends the task.
run_task(i, gen, g) ==
    The({ [jobs |-> b.L,
           tasks |-> [tasks EXCEPT ![i].state = b.state, ![i].runs = @ + 1,
                                   ![i].gen = b.gen, ![i].upload = b.upload],
           G |-> b.r.G,
           last_op |-> IF b.r.attempts = 0 THEN last_op
                       ELSE OpRecord("upload_file", b.r, now, g, "task")]
          : b \in {task_body(tasks[i].name, jobs, g, now, tasks[i].job, gen)} })

GenerateImageTask ==
    /\ \E i \in TaskIds, gen \in {"ok", "failed"} :
          /\ tasks[i].state = "STARTED"
          /\ tasks[i].name = "generate_image_task"
          /\ \E n \in {run_task(i, gen, G)} :
                /\ jobs' = n.jobs
                /\ tasks' = n.tasks
                /\ minio_credentials' = n.G.mc
                /\ client_cache' = n.G.cache
                /\ store' = n.G.store
                /\ issuer_up' = n.G.issuer
                /\ last_op' = n.last_op
    /\ UNCHANGED <<extVars, dispVars, compVars, last_update_call, gpu_available, pools, last_response, now>>

GenerateTtsTask ==
    /\ \E i \in TaskIds, gen \in {"ok", "failed"} :
          /\ tasks[i].state = "STARTED"
          /\ tasks[i].name = "generate_tts_task"
          /\ \E n \in {run_task(i, gen, G)} :
                /\ jobs' = n.jobs
                /\ tasks' = n.tasks
                /\ minio_credentials' = n.G.mc
                /\ client_cache' = n.G.cache
                /\ store' = n.G.store
                /\ issuer_up' = n.G.issuer
                /\ last_op' = n.last_op
    /\ UNCHANGED <<extVars, dispVars, compVars, last_update_call, gpu_available, pools, last_response, now>>

GenerateVideoTask ==
    /\ \E i \in TaskIds, gen \in {"ok", "failed"} :
          /\ tasks[i].state = "STARTED"
          /\ tasks[i].name = "generate_video_task"
          /\ \E n \in {run_task(i, gen, G)} :
                /\ jobs' = n.jobs
                /\ tasks' = n.tasks
                /\ minio_credentials' = n.G.mc
                /\ client_cache' = n.G.cache
                /\ store' = n.G.store
                /\ issuer_up' = n.G.issuer
                /\ last_op' = n.last_op
    /\ UNCHANGED <<extVars, dispVars, compVars, last_update_call, gpu_available, pools, last_response, now>>

CloneVoiceTask ==
    /\ \E i \in TaskIds, gen \in {"ok", "failed"} :
          /\ tasks[i].state = "STARTED"
          /\ tasks[i].name = "clone_voice_task"
          /\ \E n \in {run_task(i, gen, G)} :
                /\ jobs' = n.jobs
                /\ tasks' = n.tasks
                /\ minio_credentials' = n.G.mc
                /\ client_cache' = n.G.cache
                /\ store' = n.G.store
                /\ issuer_up' = n.G.issuer
                /\ last_op' = n.last_op
    /\ UNCHANGED <<extVars, dispVars, compVars, last_update_call, gpu_available, pools, last_response, now>>

Next ==
    \/ SubmitRequest
    \/ Submit
    \/ StartWorker
    \/ StartDefaultWorker
    \/ Pickup
    \/ GenerateImageTask
    \/ GenerateTtsTask
    \/ GenerateVideoTask
    \/ CloneVoiceTask

Spec == Init /\ [][Next]_vars

(***************************************************************************)
(* GET /result/{job_id} asked for jobs the tasks have finished.            *)
(***************************************************************************)
NextOutcome ==
    \/ Submit
    \/ StartWorker
    \/ StartDefaultWorker
    \/ Pickup
    \/ GenerateImageTask
    \/ GenerateTtsTask
    \/ GenerateVideoTask
    \/ CloneVoiceTask
    \/ GetJobResult

SpecOutcome == InitLedger /\ [][NextOutcome]_vars

(***************************************************************************)
(* delete_old_jobs run while tasks are queued or running.                  *)
(***************************************************************************)
NextOrphan ==
    \/ Submit
    \/ StartWorker
    \/ StartDefaultWorker
    \/ Pickup
    \/ GenerateImageTask
    \/ GenerateTtsTask
    \/ GenerateVideoTask
    \/ CloneVoiceTask
    \/ DeleteOldJobs
    \/ Tick

SpecOrphan == InitLedger /\ [][NextOrphan]_vars

(***************************************************************************)
(* Threads of one process using the gateway (storage/minio_client.py),     *)
(* with the body of get_minio_client and of update_credentials taken one   *)
(* statement at a time.  Thread 0 imports the module: its first call is    *)
(* the ensure_bucket() at the end of the module, and the import lock keeps *)
(* every other thread out of the module until that call has returned.      *)
(* pc of a thread: idle, check (needs_update), fetch (requests.get),       *)
(* assign (self.credentials = {...}), stamp (self.last_update = ...),      *)
(* access_key, secret_key, session_token (the three reads of               *)
(* minio_credentials.credentials[...]), connect (Minio(...) and            *)
(* list_buckets()), use (the operation works with the client it got).      *)
(***************************************************************************)
threadFrame == <<auxVars, last_store_call, last_result, generated_files, last_request, last_sweep,
                 dispVars, compVars, ledgerVars, pipeVars>>

Refreshing == {"fetch", "assign", "stamp"}

\* get_minio_client without @lru_cache: every call runs the body.
lru_cache_off(cache) == FALSE

\* @lru_cache(maxsize=1) on a function without arguments: a call returns
\* the stored value once one call has returned.
lru_cache_hit(cache) == cache.kind # "empty"

ThreadCall ==
    /\ \E th \in ThreadIds :
          /\ threads[th].pc = "idle"
          /\ threads[th].calls < MaxCalls
          /\ th = 0 \/ threads[0].calls > 0
          /\ threads' = [threads EXCEPT ![th].pc =
                            IF lru_cache_hit(client_cache) THEN "use" ELSE "check"]
    /\ UNCHANGED <<threadFrame, now, gwVars>>

ThreadCheck ==
    /\ \E th \in ThreadIds :
          /\ threads[th].pc = "check"
          /\ threads' = [threads EXCEPT ![th].pc =
                            IF needs_update(minio_credentials, now) THEN "fetch"
                            ELSE "access_key"]
    /\ UNCHANGED <<threadFrame, now, gwVars>>

\* requests.get(service_account_url): an exception makes update_credentials
\* return False, get_minio_client raise and return None, which is stored.
ThreadFetch ==
    /\ \E th \in ThreadIds :
          /\ threads[th].pc = "fetch"
          /\ threads' = [threads EXCEPT ![th].pc = IF issuer_up THEN "assign" ELSE "use",
                                        ![th].fetched = IF issuer_up THEN now ELSE @]
          /\ client_cache' = IF issuer_up THEN client_cache ELSE NoClient
    /\ UNCHANGED <<threadFrame, now, minio_credentials, store, issuer_up, last_op>>

ThreadAssign ==
    /\ \E th \in ThreadIds :
          /\ threads[th].pc = "assign"
          /\ minio_credentials' =
                [minio_credentials EXCEPT !.credentials = threads[th].fetched]
          /\ threads' = [threads EXCEPT ![th].pc = "stamp"]
    /\ UNCHANGED <<threadFrame, now, client_cache, store, issuer_up, last_op>>

ThreadStamp ==
    /\ \E th \in ThreadIds :
          /\ threads[th].pc = "stamp"
          /\ minio_credentials' = [minio_credentials EXCEPT !.last_update = now]
          /\ threads' = [threads EXCEPT ![th].pc = "access_key"]
    /\ UNCHANGED <<threadFrame, now, client_cache, store, issuer_up, last_op>>

\* credentials["access_key"] of the empty dict raises KeyError: None is
\* returned and stored.
ThreadReadAccessKey ==
    /\ \E th \in ThreadIds :
          /\ threads[th].pc = "access_key"
          /\ threads' = [threads EXCEPT
                ![th].pc = IF minio_credentials.credentials = 0 THEN "use"
                           ELSE "secret_key",
                ![th].access_key = minio_credentials.credentials]
          /\ client_cache' = IF minio_credentials.credentials = 0 THEN NoClient
                             ELSE client_cache
    /\ UNCHANGED <<threadFrame, now, minio_credentials, store, issuer_up, last_op>>

ThreadReadSecretKey ==
    /\ \E th \in ThreadIds :
          /\ threads[th].pc = "secret_key"
          /\ threads' = [threads EXCEPT ![th].pc = "session_token",
                                        ![th].secret_key = minio_credentials.credentials]
    /\ UNCHANGED <<threadFrame, now, gwVars>>

ThreadReadSessionToken ==
    /\ \E th \in ThreadIds :
          /\ threads[th].pc = "session_token"
          /\ threads' = [threads EXCEPT ![th].pc = "connect",
                                        ![th].session_token = minio_credentials.credentials]
    /\ UNCHANGED <<threadFrame, now, gwVars>>

\* Minio(...), client.list_buckets(), return client: the value is stored.
ThreadConnect ==
    /\ \E th \in ThreadIds :
          /\ threads[th].pc = "connect"
          /\ client_cache' = Client(threads[th].access_key)
          /\ threads' = [threads EXCEPT ![th].pc = "use"]
    /\ UNCHANGED <<threadFrame, now, minio_credentials, store, issuer_up, last_op>>

\* The rest of the gateway function; an exception whose text holds
\* "token expired" sets last_update to 0.
ThreadUse ==
    /\ \E th \in ThreadIds, expired \in BOOLEAN :
          /\ threads[th].pc = "use"
          /\ expired => client_cache.kind = "client"
          /\ minio_credentials' =
                IF expired THEN [minio_credentials EXCEPT !.last_update = 0]
                ELSE minio_credentials
          /\ threads' = [threads EXCEPT ![th] = [NoThread EXCEPT !.calls =
                                                    threads[th].calls + 1]]
    /\ UNCHANGED <<threadFrame, now, client_cache, store, issuer_up, last_op>>

InitThreads ==
    /\ InitBase
    /\ gpu_available = FALSE
    /\ \E g \in {Pristine(TRUE, 0, "", TRUE)} :
          /\ minio_credentials = g.mc
          /\ client_cache = g.cache
          /\ store = g.store
          /\ issuer_up = g.issuer
          /\ last_op = OpRecord("", NoGatewayCall(g), StartTime, g, "")

NextThreads ==
    \/ ThreadCall
    \/ ThreadCheck
    \/ ThreadFetch
    \/ ThreadAssign
    \/ ThreadStamp
    \/ ThreadReadAccessKey
    \/ ThreadReadSecretKey
    \/ ThreadReadSessionToken
    \/ ThreadConnect
    \/ ThreadUse
    \/ Tick

SpecThreads == InitThreads /\ [][NextThreads]_vars

(***************************************************************************)
(* The import of storage/minio_client.py taken as a step: the module-level *)
(* ensure_bucket() is the one gateway call that runs the body of           *)
(* get_minio_client, and with it the credential refresh.                   *)
(***************************************************************************)
InitUnimported ==
    /\ InitBase
    /\ gpu_available = FALSE
    /\ \E g \in AnyEnvironment :
          /\ minio_credentials = g.mc
          /\ client_cache = g.cache
          /\ store = g.store
          /\ issuer_up = g.issuer
          /\ last_op = OpRecord("", NoGatewayCall(g), StartTime, g, "")

ImportStorage ==
    /\ last_op.op = ""
    /\ \E g \in {G} : \E r \in {ensure_bucket(g, now)} :
          SetGateway("import", r, now, g, "")
    /\ UNCHANGED <<extVars, dispVars, compVars, ledgerVars, pipeVars, now>>

NextImport ==
    \/ ImportStorage
    \/ IssuerChange
    \/ StoreFault
    \/ Tick

SpecImport == InitUnimported /\ [][NextImport]_vars

(***************************************************************************)
(* The submission endpoints with requests of any key and body.             *)
(***************************************************************************)
NextSurface ==
    \/ PostRequest
    \/ StartWorker
    \/ StartDefaultWorker
    \/ Pickup
    \/ CloneVoiceTask

SpecSurface == InitLedger /\ [][NextSurface]_vars

(***************************************************************************)
(* Status queries beside workers that write the ledger.                    *)
(***************************************************************************)
\* An entry of the cache answers until its expiry.
cache_hit(entry, t) == entry.status # "" /\ t < entry.expires

\* The cached endpoint: the stored answer on a hit; otherwise the handler,
\* whose 404 is raised and whose returned row is stored for 30 seconds.
get_job_status_endpoint(L, cache, t, job_id) ==
    IF cache_hit(cache[job_id], t)
    THEN [code |-> 200, status |-> cache[job_id].status, cache |-> cache, cached |-> TRUE]
    ELSE IF get_job_status(L, job_id) = "none"
    THEN [code |-> 404, status |-> "none", cache |-> cache, cached |-> FALSE]
    ELSE [code |-> 200, status |-> get_job_status(L, job_id),
          cache |-> [cache EXCEPT ![job_id] =
                        [status |-> get_job_status(L, job_id),
                         expires |-> t + status_cache_time]],
          cached |-> FALSE]

GetJobStatusEndpoint ==
    /\ \E j \in JobIds : \E r \in {get_job_status_endpoint(jobs, status_cache, now, j)} :
          /\ status_cache' = r.cache
          /\ last_status' = [job |-> j, code |-> r.code, returned |-> r.status,
                             stored |-> get_job_status(jobs, j), cached |-> r.cached]
    /\ UNCHANGED <<conns, resized, last_store_call, last_result, generated_files,
                   last_request, threads, last_sweep, dispVars, compVars, ledgerVars,
                   pipeVars, now, gwVars>>

NextStatus ==
    \/ ConnBegin
    \/ ConnExecute
    \/ ConnBusy
    \/ ConnCommit
    \/ GetJobStatusEndpoint
    \/ Tick

SpecStatus == InitConcurrent /\ [][NextStatus]_vars

(***************************************************************************)
(* render_scene sizing one image element.                                  *)
(***************************************************************************)
SizeImageElement ==
    /\ \E src \in ImageSizes, w \in ElementWidths, h \in ElementHeights :
          resized' = [called |-> TRUE, source |-> src, width |-> w, height |-> h,
                      size |-> image_element_size(src, w, h)]
    /\ UNCHANGED <<conns, status_cache, last_status, last_store_call, last_result,
                   generated_files, last_request, threads, last_sweep, dispVars, compVars, ledgerVars, pipeVars, now,
                   gwVars>>

NextSizing == SizeImageElement

SpecSizing == InitLedger /\ [][NextSizing]_vars

(***************************************************************************)
(* Re-execution: the message of a finished task is delivered again, as a   *)
(* second <task>.delay(job_id, request_data) for the same job or a broker  *)
(* redelivery does, and the body runs once more for the same job_id.       *)
(***************************************************************************)
Redeliver ==
    /\ \E i \in TaskIds :
          /\ tasks[i].state \in {"SUCCESS", "FAILURE"}
          /\ tasks[i].runs < MaxRuns
          /\ tasks' = [tasks EXCEPT ![i].state = "PENDING"]
    /\ UNCHANGED <<extVars, dispVars, compVars, ledgerVars, gpu_available, pools,
                   last_response, now, gwVars>>

NextRedelivery ==
    \/ Submit
    \/ StartWorker
    \/ StartDefaultWorker
    \/ Pickup
    \/ GenerateImageTask
    \/ GenerateTtsTask
    \/ GenerateVideoTask
    \/ CloneVoiceTask
    \/ Redeliver
    \/ Tick

SpecRedelivery == InitLedger /\ [][NextRedelivery]_vars

(***************************************************************************)
(* The dispatcher with worker instances and rate limits (celery_app.py).   *)
(***************************************************************************)
baseVars == <<ledgerVars, pipeVars, now, gwVars, extVars>>

\* <task>.delay(job_id, request_data): the sender places the message on the
\* queue app.conf.task_routes gives for the task name.
Delay ==
    /\ \E name \in TaskNames :
          /\ SumOver(sent, TaskNames) < MaxSubmitted
          /\ sent' = [sent EXCEPT ![name] = @ + 1]
          /\ broker' = [broker EXCEPT
                            ![task_routes(name, gpu_available)][name] = @ + 1]
    /\ UNCHANGED <<workers, window, compVars, baseVars>>

\* start_worker(queue) in a new process.
StartWorkerInstance ==
    /\ \E w \in WorkerIds, q \in WorkerArgs :
          /\ workers[w].queue = "off"
          /\ workers' = [workers EXCEPT ![w].queue = worker_queue(q)]
    /\ UNCHANGED <<broker, window, sent, compVars, baseVars>>

\* A worker instance takes a message from its queue and starts the task,
\* unless this instance has used up the task's rate limit of the minute;
\* the message then waits.
Execute ==
    /\ \E w \in WorkerIds, name \in TaskNames :
          /\ workers[w].queue # "off"
          /\ broker[workers[w].queue][name] > 0
          /\ task_annotations(name) > 0
                => workers[w].started[window][name] < task_annotations(name)
          /\ broker' = [broker EXCEPT ![workers[w].queue][name] = @ - 1]
          /\ workers' = [workers EXCEPT ![w].started[window][name] = @ + 1]
    /\ UNCHANGED <<window, sent, compVars, baseVars>>

NextMinute ==
    /\ window < MaxWindows
    /\ window' = window + 1
    /\ UNCHANGED <<broker, workers, sent, compVars, baseVars>>

InitDispatcher ==
    /\ InitBase
    /\ gpu_available \in BOOLEAN
    /\ ImportGateway({Pristine(TRUE, 0, "", TRUE)})

NextDispatcher ==
    \/ Delay
    \/ StartWorkerInstance
    \/ Execute
    \/ NextMinute

SpecDispatcher == InitDispatcher /\ [][NextDispatcher]_vars

(***************************************************************************)
(* The Scene Compositor called with a scene or a list of scenes            *)
(* (video/editor.py).                                                      *)
(***************************************************************************)
Scenes == {Scene(d, es) : d \in SceneDurations, es \in SeqsUpTo(Elements, MaxElements)}
\* The scenes of the lists given to create_video_from_scenes.
TimelineScenes == {Scene(d, es) : d \in SceneDurations, es \in SeqsUpTo(Elements, 1)}
SceneLists(n) == SeqsUpTo(TimelineScenes, n)

\* Lines 52-66: the clips of the scenes, without the scenes whose
\* render_scene returned None.
video_clips(scenes) ==
    SelectSeq([i \in 1..Len(scenes) |-> render_scene(scenes[i])],
              LAMBDA c : c.kind = "clip")

RECURSIVE StartOf(_, _)
StartOf(clips, n) ==
    IF n = 1 THEN 0
    ELSE The({ b + clips[n - 1].duration : b \in {StartOf(clips, n - 1)} })

\* moviepy's concatenate_videoclips(clips, method="compose"): the clips one
\* after the other, each starting where the clip before ends; the sum of
\* the durations raises TypeError when a clip has no duration.
concatenate_videoclips(clips) ==
    IF \E i \in 1..Len(clips) : clips[i].duration = Unset THEN NoTimeline
    ELSE [kind |-> "timeline",
          duration |-> StartOf(clips, Len(clips)) + clips[Len(clips)].duration,
          clips |-> [i \in 1..Len(clips) |->
                        [start |-> StartOf(clips, i), duration |-> clips[i].duration]]]

\* create_video_from_scenes(job_id, scenes): renders the scenes, raises
\* ValueError when no clip is left, concatenates, writes the file (gen: the
\* outcome of write_videofile), uploads it and returns the URL; every
\* exception is caught and None returned.
create_video_from_scene_list(g, t, job_id, scenes, gen) ==
    The({ The({
            IF clips = << >> \/ timeline.kind = "none"
            THEN [timeline |-> NoTimeline, written |-> FALSE,
                  r |-> create_video_from_scenes(g, t, job_id, "failed")]
            ELSE [timeline |-> timeline, written |-> gen = "ok",
                  r |-> create_video_from_scenes(g, t, job_id, gen)]
          : timeline \in {IF clips = << >> THEN NoTimeline
                          ELSE concatenate_videoclips(clips)} })
        : clips \in {video_clips(scenes)} })

RenderScene ==
    /\ ~rendered.called /\ ~video.called
    /\ \E scene \in Scenes :
          rendered' = [called |-> TRUE, scene |-> scene, clip |-> render_scene(scene)]
    /\ UNCHANGED <<video, dispVars, baseVars>>

CreateVideoFromScenes ==
    /\ ~rendered.called /\ ~video.called
    /\ \E scenes \in SceneLists(MaxScenes), gen \in {"ok", "failed"} :
       \E g \in {G} : \E v \in {create_video_from_scene_list(g, now, 1, scenes, gen)} :
          /\ video' = [called |-> TRUE, scenes |-> scenes, timeline |-> v.timeline,
                       written |-> v.written, uploaded |-> Uploaded(v.r) = "ok",
                       ret |-> v.r.ret]
          /\ minio_credentials' = v.r.G.mc
          /\ client_cache' = v.r.G.cache
          /\ store' = v.r.G.store
          /\ issuer_up' = v.r.G.issuer
          /\ last_op' = IF v.r.attempts = 0 THEN last_op
                        ELSE OpRecord("upload_file", v.r, now, g, "task")
    /\ UNCHANGED <<rendered, dispVars, ledgerVars, pipeVars, now, extVars>>

InitCompositor ==
    /\ InitBase
    /\ gpu_available = FALSE
    /\ ImportGateway({Pristine(TRUE, 0, "", TRUE)})

NextCompositor ==
    \/ RenderScene
    \/ CreateVideoFromScenes

SpecCompositor == InitCompositor /\ [][NextCompositor]_vars

(***************************************************************************)
(* Properties.                                                             *)
(***************************************************************************)
Finished(i) == tasks[i].state \in {"SUCCESS", "FAILURE"}

\* C1: once a job's status is completed or failed, no later
\* update_job_status call changes its status or its result (checked under
\* SpecLedger, where update_job_status is called with every status and
\* result_url).
C1_TerminalIsFinal ==
    [][\A j \in JobIds : jobs[j].status \in Terminal => jobs'[j] = jobs[j]]_vars

\* C2: when the body of a task of any of the four types has finished
\* (returned or raised), the task's job is completed or failed.
C2_FinishedTaskEndsJob ==
    \A i \in TaskIds : Finished(i) => jobs[tasks[i].job].status \in Terminal

\* C3: when the generation succeeded and upload_file did not persist the
\* artifact, the finished task has set the job to failed (never completed).
C3_UploadFailureFailsJob ==
    \A i \in TaskIds :
        (Finished(i) /\ tasks[i].gen = "ok" /\ tasks[i].upload = "failed")
            => jobs[tasks[i].job].status = "failed"

\* C4: when generate_image or create_video_from_scenes could not produce an
\* artifact, the job is failed with the error text after a single execution
\* of the task, and is not completed.
C4_GeneratorFailureFailsJob ==
    \A i \in TaskIds :
        (Finished(i) /\ tasks[i].gen = "failed"
            /\ tasks[i].name \in {"generate_image_task", "generate_video_task"})
            => /\ jobs[tasks[i].job].status = "failed"
               /\ jobs[tasks[i].job].result_url.kind = "text"
               /\ tasks[i].runs = 1

\* C5: no step writes completed or failed to a job whose status is queued:
\* a queued job stays queued or becomes processing.
C5_NoSkipOfProcessing ==
    [][\A j \in JobIds : jobs[j].status = "queued"
                            => jobs'[j].status \in {"queued", "processing"}]_vars

\* C6: when the handler of any of the four submission endpoints has answered
\* a valid request, the ledger holds the job with status queued (the status
\* query made right after the submit returns queued, never not-found or
\* another state) and the job's task has been enqueued.
C6_SubmitStoresQueued ==
    last_response.endpoint # ""
        => /\ last_response.seen = "queued"
           /\ last_response.enqueued >= 1

\* C7: a job is set to failed by a task whose body raised only after the
\* task has been executed 1 + task_max_retries times (its retries are
\* exhausted).
C7_FailedOnlyAfterRetries ==
    \A i \in TaskIds :
        (tasks[i].state = "FAILURE" /\ jobs[tasks[i].job].status = "failed")
            => tasks[i].runs = 1 + task_max_retries

\* C8: an upload_file of an existing file, with a storage client and a
\* bucket available, against a store that fails N times with
\* 1 <= N < max_retries returns a URL; and no upload_file makes more than
\* max_retries attempts.
C8_UploadRetriesTransientFailures ==
    last_op.op = "upload_file"
        => /\ last_op.attempts <= max_retries
           /\ (/\ last_op.path = "file"
               /\ last_op.cache_before = "client"
               /\ last_op.bucket_before
               /\ last_op.fails_before \in 1..(max_retries - 1))
                 => last_op.ret.kind = "url"

\* C9: a gateway operation that starts with last_update = 0 (forced, or
\* reset by an operation that failed with a token-expired signal), with or
\* without a storage client created earlier, runs exactly one credential
\* refresh.
C9_ResetForcesOneRefresh ==
    last_op.last_update_before = 0 => last_op.refreshes = 1

\* C10: every request a gateway operation sends to the store is made with
\* credentials no older than credentials_cache_time.
C10_NoStaleCredentials ==
    last_op.used => (last_op.at - last_op.cred) <= credentials_cache_time

\* The generate_image tasks started in minute m by all worker instances.
StartedInWindow(name, m) ==
    SumOver([w \in WorkerIds |-> workers[w].started[m][name]], WorkerIds)
Waiting(name) == SumOver([q \in Queues |-> broker[q][name]], Queues)
StartedEver(name) ==
    SumOver([m \in Windows |-> StartedInWindow(name, m)], Windows)

\* C11: in every minute at most 2 generate_image tasks are started, all
\* worker instances taken together, and no message is dropped: every
\* message sent is either waiting on a queue or has been started.
C11_ImageRateLimitClusterWide ==
    /\ \A m \in Windows :
          StartedInWindow("generate_image_task", m)
              <= task_annotations("generate_image_task")
    /\ \A n \in TaskNames : sent[n] = Waiting(n) + StartedEver(n)

\* C12: every message sent, of each of the four task types, waits on a queue
\* that a worker started by start_worker consumes.
C12_EveryQueueHasAWorkerPool ==
    \A q \in Queues, n \in TaskNames :
        broker[q][n] > 0 => q \in {worker_queue(a) : a \in WorkerArgs}

\* C13: generate_image and generate_tts messages are on the gpu queue when
\* gpu_available and on the cpu queue otherwise, generate_video messages are
\* on the cpu queue, and gpu_available never changes after start-up.
C13_RoutingByCapability ==
    /\ [](\A q \in Queues :
            /\ \A n \in {"generate_image_task", "generate_tts_task"} :
                  broker[q][n] > 0 => q = (IF gpu_available THEN "gpu" ELSE "cpu")
            /\ broker[q]["generate_video_task"] > 0 => q = "cpu")
    /\ [][gpu_available' = gpu_available]_vars

\* With a GPU: image and speech messages wait on gpu, a video message on cpu.
C13_Witness ==
    /\ gpu_available
    /\ broker["gpu"]["generate_image_task"] > 0
    /\ broker["gpu"]["generate_tts_task"] > 0
    /\ broker["cpu"]["generate_video_task"] > 0

(***************************************************************************)
(* Scene Compositor properties.  They are about a call of render_scene     *)
(* (rendered) or of create_video_from_scenes (video).                      *)
(***************************************************************************)
IndexesOf(scene, type) ==
    {i \in 1..Len(scene.elements) : scene.elements[i].type = type}
\* The element carries every key render_scene subscripts.
HasKeys(e) == e.has_size /\ e.has_duration
FirstAudioLength(scene) ==
    scene.elements[CHOOSE i \in IndexesOf(scene, "audio") :
                      \A k \in IndexesOf(scene, "audio") : i <= k].length
\* The duration the spec resolves for a scene: its own, else the length of
\* its first audio element, else the default.
ResolvedDuration(scene) ==
    IF scene.duration # Auto THEN scene.duration
    ELSE IF IndexesOf(scene, "audio") # {} THEN FirstAudioLength(scene)
    ELSE default_duration

\* C14: a rendered scene with duration auto, exactly one audio element of
\* length L and otherwise image elements without explicit duration, in any
\* order, has duration L, and each of its image layers has duration L.
C14_AutoSceneTakesAudioLength ==
    (/\ rendered.called
     /\ rendered.scene.duration = Auto
     /\ Cardinality(IndexesOf(rendered.scene, "audio")) = 1
     /\ IndexesOf(rendered.scene, "image") # {}
     /\ \A i \in 1..Len(rendered.scene.elements) :
            /\ rendered.scene.elements[i].type \in {"audio", "image"}
            /\ HasKeys(rendered.scene.elements[i])
            /\ rendered.scene.elements[i].duration = Auto)
    => /\ rendered.clip.kind = "clip"
       /\ rendered.clip.duration = FirstAudioLength(rendered.scene)
       /\ \A k \in 1..Len(rendered.clip.layers) :
             rendered.clip.layers[k].type = "image"
                => rendered.clip.layers[k].duration = FirstAudioLength(rendered.scene)

C17_DefaultDuration ==
    rendered.called
    => /\ rendered.clip.kind = "clip" => rendered.clip.duration > 0
       /\ (/\ rendered.scene.duration = Auto
           /\ rendered.scene.elements # << >>
           /\ \A i \in 1..Len(rendered.scene.elements) :
                 /\ rendered.scene.elements[i].type \in {"image", "text"}
                 /\ HasKeys(rendered.scene.elements[i])
                 /\ rendered.scene.elements[i].duration = Auto)
          => /\ rendered.clip.kind = "clip"
             /\ rendered.clip.duration = default_duration
             /\ \A k \in 1..Len(rendered.clip.layers) :
                   rendered.clip.layers[k].duration = default_duration

\* C18: in a scene whose elements all carry an explicit duration, of any
\* type and with any scene duration, every element is rendered with exactly
\* its own duration.
C18_ExplicitElementDurationHonoured ==
    (/\ rendered.called
     /\ rendered.scene.elements # << >>
     /\ \A i \in 1..Len(rendered.scene.elements) :
           /\ HasKeys(rendered.scene.elements[i])
           /\ rendered.scene.elements[i].duration # Auto)
    => /\ rendered.clip.kind = "clip"
       /\ Len(rendered.clip.layers) = Len(rendered.scene.elements)
       /\ \A i \in 1..Len(rendered.clip.layers) :
             i <= Len(rendered.scene.elements)
                => rendered.clip.layers[i].duration = rendered.scene.elements[i].duration

\* C19: a scene with duration auto and several audio elements is rendered
\* with the length of its first audio element as duration.
C19_FirstAudioDecides ==
    (/\ rendered.called
     /\ rendered.scene.duration = Auto
     /\ Cardinality(IndexesOf(rendered.scene, "audio")) >= 2
     /\ \A i \in 1..Len(rendered.scene.elements) : HasKeys(rendered.scene.elements[i]))
    => /\ rendered.clip.kind = "clip"
       /\ rendered.clip.duration = FirstAudioLength(rendered.scene)

WithoutText(scene) ==
    Scene(scene.duration, SelectSeq(scene.elements, LAMBDA e : e.type # "text"))

\* C20: in a rendered scene every text layer has the duration of the scene,
\* and the scene has the duration it has without its text elements.
C20_TextInherits ==
    (/\ rendered.called
     /\ rendered.clip.kind = "clip"
     /\ IndexesOf(rendered.scene, "text") # {})
    => /\ \A k \in 1..Len(rendered.clip.layers) :
             rendered.clip.layers[k].type = "text"
                => rendered.clip.layers[k].duration = rendered.clip.duration
       /\ render_scene(WithoutText(rendered.scene)).kind = "clip"
             => render_scene(WithoutText(rendered.scene)).duration
                    = rendered.clip.duration

C23_ResultAndErrorExclusive ==
    \A j \in JobIds :
        /\ ~(Truthy(jobs[j].result_url) /\ Truthy(jobs[j].error_message))
        /\ jobs[j].status \in {"queued", "processing"}
              => ~Truthy(jobs[j].result_url) /\ ~Truthy(jobs[j].error_message)
        /\ jobs[j].status = "failed"
              => Truthy(jobs[j].error_message) /\ ~Truthy(jobs[j].result_url)

\* C22: GET /result/{job_id} answers 404 for a job_id the ledger does not
\* hold and 400 for a job that is queued, processing or failed, in both
\* cases without a result URL; a result URL is returned only for a completed
\* job.
C22_ResultOnlyWhenCompleted ==
    last_result.job # 0
        => /\ last_result.before = "absent"
                => last_result.code = 404 /\ last_result.result_url = None
           /\ last_result.before \in {"queued", "processing", "failed"}
                => last_result.code = 400 /\ last_result.result_url = None
           /\ last_result.result_url # None
                => last_result.before = "completed" /\ last_result.code = 200

\* The result of a failed job was asked for and refused.
C22_Witness ==
    /\ last_result.before = "failed"
    /\ last_result.code = 400
    /\ \E j \in JobIds : jobs[j].status = "completed"

\* C25: an update_job_status call for a job_id the ledger does not hold
\* raises, and the ledger still has no row for that job_id.
C25_UpdateOfAbsentJobFails ==
    (last_update_call.job # 0 /\ last_update_call.before.status = "absent")
        => /\ last_update_call.raised
           /\ jobs[last_update_call.job].status = "absent"

\* C26: every generated_files row references a job the ledger holds, and a
\* call of delete_old_jobs(days) at time t removes exactly the jobs created
\* before t - days (their files go with them, so that no row is orphaned).
C26_SweepRemovesOldJobsAndTheirFiles ==
    /\ \A f \in generated_files : jobs[f.job].status # "absent"
    /\ last_sweep.called => last_sweep.removed = last_sweep.older

\* C24: a store_job call for a job_id the ledger already holds raises, and
\* the step leaves every row of the jobs table as it was.
C24_DuplicateJobRejected ==
    /\ [](last_store_call.existed => last_store_call.raised)
    /\ [][last_store_call'.existed => jobs' = jobs]_vars

\* store_job was called for a job the ledger held as completed.
C24_Witness ==
    /\ last_store_call.existed
    /\ last_store_call.raised
    /\ last_store_call.status = "queued"
    /\ jobs[last_store_call.job].status = "completed"

\* C27: every object the store holds carries the layout name of its job's
\* task (images/<job>.png, videos/<job>.mp4, audio/<job>.wav or
\* audios/<job>.wav), and however often the tasks were run again the
\* store holds at most one object per job and media type.
C27_OneObjectPerJobAndMediaType ==
    /\ \A o \in store.objects :
          /\ o.job \in JobIds
          /\ o \in {ObjectName("images", o.job, "png"), ObjectName("videos", o.job, "mp4"),
                    ObjectName("audio", o.job, "wav"), ObjectName("audios", o.job, "wav")}
    /\ \A j \in JobIds : \A m \in {"images", "videos", "audio", "audios"} :
          Cardinality({o \in store.objects : o.job = j /\ o.media = m}) <= 1

\* A task ran a second time, uploaded again, and the store holds the one
\* object of its job.
C27_Witness ==
    \E i \in TaskIds :
        /\ tasks[i].runs >= 2
        /\ tasks[i].upload = "ok"
        /\ now > StartTime
        /\ Cardinality({o \in store.objects : o.job = tasks[i].job}) = 1

\* C28: a submission request with a valid API key and a valid payload, to
\* any of the submission endpoints, creates exactly one job record and
\* enqueues exactly one task for that job.
C28_OneRecordAndOneTaskPerSubmission ==
    last_response.endpoint # ""
        => /\ jobs[last_response.job].status # "absent"
           /\ last_response.enqueued = 1
           /\ Cardinality({i \in TaskIds : tasks[i].job = last_response.job}) = 1

\* C29: a request without the API key, with a wrong API key or with a
\* payload the endpoint's model refuses is answered 401 or 422, adds no
\* row to the jobs table and enqueues no task; no task exists that a
\* worker could run or run again for it.
C29_RejectedRequestLeavesNoTrace ==
    /\ [](/\ last_request.endpoint # ""
          /\ (last_request.key # API_KEY \/ last_request.payload # "valid")
          => /\ last_request.code \in {401, 422}
             /\ last_request.created = 0
             /\ last_request.enqueued = 0)
    /\ [][/\ last_request'.endpoint # ""
          /\ last_request' # last_request
          /\ (last_request'.key # API_KEY \/ last_request'.payload # "valid")
          => jobs' = jobs /\ tasks' = tasks]_vars

\* A request with a wrong key and a valid body on the endpoint whose handler
\* works was answered 401, after an accepted request had created a job.
C29_Witness ==
    /\ last_request.endpoint = "clone-voice"
    /\ last_request.key = "invalid-key"
    /\ last_request.payload = "valid"
    /\ last_request.code = 401
    /\ \E j \in JobIds : jobs[j].status # "absent"
    /\ \E j \in JobIds : jobs[j].status = "absent"

C31_ConcurrentUpdatesAreSerial ==
    [][\A c \in ConnIds :
          /\ (conns[c].pc = "commit" /\ conns'[c].pc = "idle")
                => jobs' = update_job_status(jobs, conns[c].job, conns[c].status,
                                             conns[c].result_url)
          /\ (conns[c].pc = "execute" /\ conns'[c].pc = "idle") => jobs' = jobs]_vars

\* Two calls on the same job were in flight together and both committed,
\* one with a result URL and one without.
C31_Witness ==
    \E c \in ConnIds, o \in ConnIds :
        /\ c # o
        /\ conns[c].pc = "idle" /\ conns[o].pc = "idle"
        /\ conns[c].committed >= 1 /\ conns[o].committed >= 1
        /\ conns[c].job = conns[o].job
        /\ conns[c].overlapped
        /\ conns[c].status # conns[o].status
        /\ Truthy(conns[o].result_url) /\ ~Truthy(conns[c].result_url)

\* C32: the record of a job created by a submission holds the parameters
\* of the request as metadata.
C32_MetadataHoldsRequest ==
    /\ last_response.endpoint # ""
    /\ jobs[last_response.job].status # "absent"
    => jobs[last_response.job].metadata = request_dict(last_response.endpoint)

\* C33: an image element with width = -1 and height = -1 gets a size that
\* fits inside the 1280x720 frame and has the source's width-to-height
\* ratio (to the pixel); an element with explicit width and height gets
\* exactly that width and height.
C33_ImageElementSize ==
    resized.called =>
        /\ (resized.width = Auto /\ resized.height = Auto)
              => /\ resized.size[1] <= FrameSize[1]
                 /\ resized.size[2] <= FrameSize[2]
                 /\ (resized.size[1] + 1) * resized.source[2]
                       > resized.size[2] * resized.source[1]
                 /\ (resized.size[2] + 1) * resized.source[1]
                       > resized.size[1] * resized.source[2]
        /\ (resized.width # Auto /\ resized.height # Auto)
              => resized.size = <<resized.width, resized.height>>

\* C34: a generate-tts request with a voice_sample_url has a voice-cloning
\* task, and the speech-synthesis task of the job is not started before
\* that task has finished.
C34_CloneBeforeSynthesis ==
    (last_response.endpoint = "generate-tts" /\ last_response.sample)
        => /\ \E i \in TaskIds : /\ tasks[i].job = last_response.job
                                 /\ tasks[i].name = "clone_voice_task"
           /\ \A i \in TaskIds, k \in TaskIds :
                 (/\ tasks[i].job = last_response.job
                  /\ tasks[k].job = last_response.job
                  /\ tasks[i].name = "clone_voice_task"
                  /\ tasks[k].name = "generate_tts_task"
                  /\ tasks[k].state \in {"STARTED", "SUCCESS", "FAILURE"})
                 => tasks[i].state \in {"SUCCESS", "FAILURE"}

\* C35: a status query answers with the status the ledger holds for the
\* job at that moment; in particular it does not answer queued or
\* processing for a job the ledger holds as completed or failed.
C35_StatusQueryIsCurrent ==
    last_status.job # 0 => last_status.returned = last_status.stored

\* C36: after get_minio_client could not create a client, an upload of an
\* existing file made while the issuer answers, the store has no failure
\* pending and the bucket exists creates a client and returns the URL.
C36_GatewayRecoversAfterFailedCreation ==
    [][(/\ client_cache = NoClient
        /\ issuer_up /\ store.fails = 0 /\ store.bucket
        /\ last_op' # last_op
        /\ last_op'.op = "upload_file" /\ last_op'.path = "file")
       => (last_op'.ret # None /\ last_op'.used)]_vars

C38_ResultIsTheJobsOwnArtifact ==
    last_result.code = 200
    => \A i \in TaskIds :
          (/\ tasks[i].job = last_result.job /\ tasks[i].state = "SUCCESS"
           /\ jobs[last_result.job].result_url.kind = "url")
          => /\ last_result.result_url.job = last_result.job
             /\ tasks[i].name = "generate_image_task"
                  => (last_result.result_url.media = "images"
                      /\ last_result.result_url.ext = "png")
             /\ tasks[i].name = "generate_tts_task"
                  => (last_result.result_url.media = "audios"
                      /\ last_result.result_url.ext = "wav")
             /\ tasks[i].name = "generate_video_task"
                  => (last_result.result_url.media = "videos"
                      /\ last_result.result_url.ext = "mp4")

\* C39: a task that ends after delete_old_jobs removed its job leaves the
\* job absent (update_job_status does not recreate the row), get_job_status
\* returns None for it, and the write does not raise: a task whose upload
\* succeeded still ends in SUCCESS.
C39_UpdateOfRemovedJobIsANoOp ==
    [][\A i \in TaskIds :
          (/\ tasks[i].state = "STARTED"
           /\ jobs[tasks[i].job].status = "absent"
           /\ tasks'[i].state # "STARTED")
          => /\ jobs'[tasks[i].job] = NoRow
             /\ get_job_status(jobs', tasks[i].job) = "none"
             /\ ~update_job_status_raises(jobs, tasks[i].job, "completed", None)
             /\ tasks'[i].upload = "ok" => tasks'[i].state = "SUCCESS"]_vars

\* A job removed by a sweep, whose only run task uploaded its artifact at a
\* later time and ended, the job still absent.
C39_Witness ==
    \E i \in TaskIds :
        /\ last_sweep.called /\ last_sweep.removed = {tasks[i].job}
        /\ tasks[i].state = "SUCCESS" /\ tasks[i].upload = "ok"
        /\ \A k \in TaskIds \ {i} : tasks[k].runs = 0
        /\ last_op.op = "upload_file" /\ last_op.path = "task"
        /\ last_op.at > last_sweep.at
        /\ jobs[tasks[i].job] = NoRow

\* C40: when the credential refresh of a gateway call fails, the cached
\* triple and last_update stay as they were, and the call fails without a
\* request to the store.
C40_FailedRefreshChangesNothing ==
    [][(/\ last_op.op = "" /\ last_op'.op = "import"
        /\ needs_update(minio_credentials, now)
        /\ ~issuer_up)
       => /\ minio_credentials' = minio_credentials
          /\ last_op'.refreshes = 1
          /\ ~last_op'.used
          /\ last_op'.ret = False
          /\ store' = store
          /\ client_cache'.kind # "client"]_vars

\* The import found the issuer down: the refresh was tried and the call
\* returned False.
C40_Witness ==
    /\ last_op.op = "import" /\ last_op.refreshes = 1
    /\ ~last_op.used /\ last_op.ret = False
    /\ minio_credentials = [credentials |-> 0, last_update |-> 0]
    /\ client_cache = NoClient
    /\ store.fails = 0 /\ store.bucket
====
